---------------------------- MODULE Spec2Model ----------------------------
(***************************************************************************)
(* A model of the kixx-templating pipeline:                                *)
(*   tokenize            (lib/tokenize.js)                                 *)
(*   buildSyntaxTree     (lib/build-syntax-tree.js)                        *)
(*   createRenderFunction(lib/create-render-function.js)                   *)
(* Text is a sequence of one-character strings.  JavaScript values are     *)
(* tagged records.  A thrown exception is a result record with ok = FALSE. *)
(***************************************************************************)
EXTENDS Integers, Sequences, FiniteSets, TLC

(***************************************************************************)
(* Bounds of the model.                                                    *)
(***************************************************************************)
\* Longest generated template, counted in fragments.
MaxFrags == 2
\* Longest generated expression text, counted in lexemes.
MaxLexemes == 3
\* Number of handler functions registered with the event emitter.
MaxHandlers == 2
\* Number of emit calls.
MaxEmits == 2

(***************************************************************************)
(* Text helpers (JavaScript String methods).                               *)
(***************************************************************************)
Min(a, b) == IF a < b THEN a ELSE b
Max(a, b) == IF a > b THEN a ELSE b

\* String.prototype.slice(a, b): negative indexes count from the end.
Slice(s, a, b) ==
    LET n  == Len(s)
        a1 == IF a < 0 THEN Max(n + a, 0) ELSE Min(a, n)
        b1 == IF b < 0 THEN Max(n + b, 0) ELSE Min(b, n)
    IN  IF a1 >= b1 THEN <<>> ELSE SubSeq(s, a1 + 1, b1)

\* String.prototype.startsWith for a one-character prefix.
StartsWith(s, c) == Len(s) > 0 /\ s[1] = c

\* The characters the regular expression /\s/ matches.
WhitespaceChars == {" ", "\n", "\t"}

Digits == {"0", "1", "2", "3", "4", "5", "6", "7", "8", "9"}

\* The characters the regular expression /\w/ matches (those the model uses).
WordChars == Digits \cup
    {"a", "b", "c", "d", "e", "f", "g", "h", "i", "j", "k", "l", "m",
     "n", "o", "p", "q", "r", "s", "t", "u", "v", "w", "x", "y", "z", "_"}

RECURSIVE TrimStart(_)
TrimStart(s) ==
    IF s # <<>> /\ Head(s) \in WhitespaceChars THEN TrimStart(Tail(s)) ELSE s

RECURSIVE TrimEnd(_)
TrimEnd(s) ==
    IF s # <<>> /\ s[Len(s)] \in WhitespaceChars
    THEN TrimEnd(SubSeq(s, 1, Len(s) - 1))
    ELSE s

\* String.prototype.trim
Trim(s) == TrimEnd(TrimStart(s))

\* Array.prototype.join of a sequence of texts with a separator text.
RECURSIVE Join(_, _)
Join(ss, sep) ==
    IF ss = <<>> THEN <<>>
    ELSE IF Len(ss) = 1 THEN ss[1]
    ELSE ss[1] \o sep \o Join(Tail(ss), sep)

\* utf8.split('\n'): the text between the newline characters.
SplitLines(s) ==
    LET breaks == {i \in 1..Len(s) : s[i] = "\n"}
        \* the position of the k-th newline; 0 for k = 0, Len(s) + 1 past the last
        break(k) == IF k = 0 THEN 0
                    ELSE IF k > Cardinality(breaks) THEN Len(s) + 1
                    ELSE CHOOSE i \in breaks : Cardinality({j \in breaks : j < i}) = k - 1
    IN  [k \in 1..(Cardinality(breaks) + 1) |-> SubSeq(s, break(k - 1) + 1, break(k) - 1)]

(***************************************************************************)
(* The delimiters.                                                         *)
(***************************************************************************)
MustacheOpen  == <<"{", "{">>
MustacheClose == <<"}", "}">>
CommentOpen   == <<"{", "{", "!", "-", "-">>
CommentClose  == <<"-", "-", "}", "}">>

Filename == "t"

(***************************************************************************)
(* tokenize(options, filename, utf8)                                       *)
(***************************************************************************)
\* pushToken(attrs) followed by the creation of the next token object.
PushToken(st, filename, line, lineNumber, endPosition, tokenString) ==
    Append(st.tokens,
           [filename      |-> filename,
            lineNumber    |-> lineNumber,
            startPosition |-> st.startPosition,
            endPosition   |-> endPosition,
            tokenString   |-> tokenString,
            line          |-> line])

\* One iteration of the character loop at position sc.index.
\* sc = [index, tokens, startPosition, tokenString, inComment].
ScanChar(filename, line, lineNumber, sc) ==
    LET index == sc.index
        char == line[index + 1]
        flushed(endPosition, str) ==
            IF Len(sc.tokenString) > 0
            THEN PushToken(sc, filename, line, lineNumber, endPosition, str)
            ELSE sc.tokens
    IN
    IF char = "{" /\ Slice(line, index, index + 5) = CommentOpen THEN
        [index         |-> index + 5,
         tokens        |-> flushed(index - 1, sc.tokenString),
         startPosition |-> index,
         tokenString   |-> CommentOpen,
         inComment     |-> TRUE]
    ELSE IF char = "{" /\ ~sc.inComment
            /\ Slice(line, index, index + 2) = MustacheOpen THEN
        [index         |-> index + 2,
         tokens        |-> flushed(index - 1, sc.tokenString),
         startPosition |-> index,
         tokenString   |-> MustacheOpen,
         inComment     |-> sc.inComment]
    ELSE IF char = "}" /\ Slice(line, index - 2, index + 2) = CommentClose THEN
        [index         |-> index + 2,
         tokens        |-> flushed(index - 3, Slice(sc.tokenString, 0, -2)),
         startPosition |-> index - 2,
         tokenString   |-> CommentClose,
         inComment     |-> FALSE]
    ELSE IF char = "}" /\ ~sc.inComment
            /\ Slice(line, index, index + 2) = MustacheClose THEN
        [index         |-> index + 2,
         tokens        |-> flushed(index - 1, sc.tokenString),
         startPosition |-> index,
         tokenString   |-> MustacheClose,
         inComment     |-> sc.inComment]
    ELSE IF \/ sc.tokenString = CommentOpen
            \/ sc.tokenString = CommentClose
            \/ (~sc.inComment /\ (sc.tokenString = MustacheOpen
                                  \/ sc.tokenString = MustacheClose)) THEN
        [index         |-> index + 1,
         tokens        |-> PushToken(sc, filename, line, lineNumber,
                                     index - 1, sc.tokenString),
         startPosition |-> index,
         tokenString   |-> <<char>>,
         inComment     |-> sc.inComment]
    ELSE
        [sc EXCEPT !.index = index + 1,
                   !.tokenString = Append(sc.tokenString, char)]

\* ScanLine without the pushToken after the character loop.
RECURSIVE ScanLineWithoutFlush(_, _, _, _)
ScanLineWithoutFlush(filename, line, lineNumber, sc) ==
    IF sc.index >= Len(line) THEN sc
    ELSE ScanLineWithoutFlush(filename, line, lineNumber,
                              ScanChar(filename, line, lineNumber, sc))

\* The character loop and the final pushToken after it.
RECURSIVE ScanLine(_, _, _, _)
ScanLine(filename, line, lineNumber, sc) ==
    IF sc.index >= Len(line) THEN
        [sc EXCEPT !.tokens =
            PushToken(sc, filename, line, lineNumber, sc.index, sc.tokenString)]
    ELSE ScanLine(filename, line, lineNumber,
                  ScanChar(filename, line, lineNumber, sc))

\* The line loop: lines[lineIndex] + '\n' is scanned with a fresh token.
RECURSIVE TokenizeLines(_, _, _, _, _)
TokenizeLines(filename, lines, lineIndex, tokens, inComment) ==
    IF lineIndex >= Len(lines) THEN tokens
    ELSE
    LET line == Append(lines[lineIndex + 1], "\n")
        st   == ScanLine(filename, line, lineIndex + 1,
                    [index         |-> 0,
                     tokens        |-> tokens,
                     startPosition |-> 0,
                     tokenString   |-> <<>>,
                     inComment     |-> inComment])
    IN  TokenizeLines(filename, lines, lineIndex + 1, st.tokens, st.inComment)

tokenize(filename, utf8) ==
    TokenizeLines(filename, SplitLines(utf8), 0, <<>>, FALSE)

(***************************************************************************)
(* JavaScript values.                                                      *)
(***************************************************************************)
JUndefined == [t |-> "undefined"]
JNull      == [t |-> "null"]
JStr(s)    == [t |-> "string", v |-> s]
JNum(n)    == [t |-> "number", v |-> n]
JBool(b)   == [t |-> "boolean", v |-> b]
\* An Array: v is the sequence of its elements.
JArr(a)    == [t |-> "array", v |-> a]
\* A plain object: v is a function from property names (texts) to values.
JObj(f)    == [t |-> "object", v |-> f]
\* A function: v names it.
JFn(name)  == [t |-> "function", v |-> name]

IsTruthy(val) ==
    CASE val.t = "undefined" -> FALSE
      [] val.t = "null"      -> FALSE
      [] val.t = "string"    -> val.v # <<>>
      [] val.t = "number"    -> val.v # 0
      [] val.t = "boolean"   -> val.v
      [] OTHER               -> TRUE

(***************************************************************************)
(* Results of calls that may throw.                                        *)
(***************************************************************************)
Ok(v)      == [ok |-> TRUE, v |-> v]
Throw(err) == [ok |-> FALSE, err |-> err]

\* new LineSyntaxError(message, spec): the position fields are copied from
\* spec, which is a token in every call of build-syntax-tree.js.
LineSyntaxError(message, spec) ==
    [name          |-> "LineSyntaxError",
     message       |-> message,
     filename      |-> spec.filename,
     line          |-> spec.line,
     lineNumber    |-> spec.lineNumber,
     startPosition |-> spec.startPosition,
     endPosition   |-> spec.endPosition]

\* The TypeError JavaScript raises when a property of undefined is read.
TypeError(message) == [name |-> "TypeError", message |-> message]

\* A plain Error thrown by user code.
PlainError(message) == [name |-> "Error", message |-> message]

(***************************************************************************)
(* build-syntax-tree.js: the expression parser.                            *)
(***************************************************************************)
DigitValue(c) ==
    CASE c = "0" -> 0 [] c = "1" -> 1 [] c = "2" -> 2 [] c = "3" -> 3
      [] c = "4" -> 4 [] c = "5" -> 5 [] c = "6" -> 6 [] c = "7" -> 7
      [] c = "8" -> 8 [] c = "9" -> 9

RECURSIVE ParseInt(_, _)
ParseInt(str, acc) ==
    IF str = <<>> THEN acc
    ELSE ParseInt(Tail(str), acc * 10 + DigitValue(Head(str)))

\* maybeCastToInt(str): a number when str is all digits, else str itself.
maybeCastToInt(str) ==
    IF \E i \in 1..Len(str) : str[i] \notin Digits THEN JStr(str)
    ELSE IF str = <<>> THEN JStr(str)
    ELSE JNum(ParseInt(str, 0))

\* The character loop of parseReferencePath.
\* st = [parts, inBracket, tokenString].
RECURSIVE ReferencePathLoop(_, _, _, _)
ReferencePathLoop(openToken, refpath, charIndex, st) ==
    IF charIndex >= Len(refpath) THEN
        Ok(IF st.tokenString # <<>>
           THEN Append(st.parts, JStr(st.tokenString))
           ELSE st.parts)
    ELSE
    LET c == refpath[charIndex + 1] IN
    IF st.inBracket THEN
        IF c = "]" THEN
            ReferencePathLoop(openToken, refpath, charIndex + 1,
                [parts       |-> Append(st.parts, maybeCastToInt(st.tokenString)),
                 inBracket   |-> FALSE,
                 tokenString |-> <<>>])
        ELSE
            ReferencePathLoop(openToken, refpath, charIndex + 1,
                [st EXCEPT !.tokenString = Append(@, c)])
    ELSE IF c = "." THEN
        ReferencePathLoop(openToken, refpath, charIndex + 1,
            [st EXCEPT !.parts = Append(@, JStr(st.tokenString)),
                       !.tokenString = <<>>])
    ELSE IF c \in WordChars THEN
        ReferencePathLoop(openToken, refpath, charIndex + 1,
            [st EXCEPT !.tokenString = Append(@, c)])
    ELSE IF c = "[" THEN
        ReferencePathLoop(openToken, refpath, charIndex + 1,
            [parts       |-> Append(st.parts, JStr(st.tokenString)),
             inBracket   |-> TRUE,
             tokenString |-> <<>>])
    ELSE
        Throw(LineSyntaxError("Invalid JavaScript symbol character", openToken))

\* parseReferencePath without the check of the first character.
ReferencePathAnyStart(openToken, refpath) ==
    ReferencePathLoop(openToken, refpath, 0,
        [parts |-> <<>>, inBracket |-> FALSE, tokenString |-> <<>>])

parseReferencePath(openToken, refpath) ==
    IF Len(refpath) > 0 /\ refpath[1] = "." THEN
        Throw(LineSyntaxError("A reference path cannot start with \".\"", openToken))
    ELSE
        ReferencePathLoop(openToken, refpath, 0,
            [parts |-> <<>>, inBracket |-> FALSE, tokenString |-> <<>>])

\* castToNumberOrReferencePath, the default branch of parseSymbols.
castToNumberOrReferencePath(openToken, str) ==
    LET Path(path) ==
            IF path.ok
            THEN Ok([type |-> "PATH", path |-> path.v, pathString |-> str])
            ELSE path
        Cast(val) ==
            IF val.t = "number" THEN Ok([type |-> "LITERAL", value |-> val])
            ELSE Path(parseReferencePath(openToken, str))
    IN  Cast(maybeCastToInt(str))

\* parseSymbols without the keyword cases of the switch.
SymbolsWithoutKeywords(openToken, expressionString) ==
    castToNumberOrReferencePath(openToken, expressionString)

parseSymbols(openToken, expressionString) ==
    LET s == Trim(expressionString) IN
    CASE s = <<"t", "r", "u", "e">> ->
            Ok([type |-> "LITERAL", value |-> JBool(TRUE)])
      [] s = <<"f", "a", "l", "s", "e">> ->
            Ok([type |-> "LITERAL", value |-> JBool(FALSE)])
      [] s = <<"n", "u", "l", "l">> ->
            Ok([type |-> "LITERAL", value |-> JNull])
      [] s = <<"u", "n", "d", "e", "f", "i", "n", "e", "d">> ->
            Ok([type |-> "LITERAL", value |-> JUndefined])
      [] OTHER -> castToNumberOrReferencePath(openToken, expressionString)

\* validateKeyValueKey: /^[\W]+$/ rejects a non-empty key without any word
\* character.
validateKeyValueKey(openToken, key) ==
    IF key # <<>> /\ \A i \in 1..Len(key) : key[i] \notin WordChars
    THEN Throw(LineSyntaxError("Invalid characters in key", openToken))
    ELSE Ok(key)

\* pushExpressionToken(attrs) for attrs = { value }: st.subToken is not null
\* at either call site that passes a value.
PushKeyValue(st, value) ==
    [st EXCEPT !.expressionTokens =
                    Append(@, [type  |-> "KEY_VALUE",
                               key   |-> st.subToken.key,
                               value |-> value]),
               !.subToken = JNull]

\* closeSpaceDelineatedSubToken(): called at the end of a string literal or
\* of a space delineated expression.  Returns the state, or the error thrown
\* by parseSymbols in st.error.
closeSpaceDelineatedSubToken(openToken, st) ==
    LET Close(symbols) ==
            IF st.subToken # JNull /\ st.subToken.type = "KEY_VALUE" THEN
                IF st.inStringLiteral # "" THEN
                    PushKeyValue(st, [type  |-> "LITERAL",
                                      value |-> JStr(st.stringLiteral)])
                ELSE IF st.expressionTokenString # <<>> THEN
                    IF symbols.ok THEN PushKeyValue(st, symbols.v)
                    ELSE [st EXCEPT !.error = symbols]
                ELSE st
            ELSE IF st.inStringLiteral # "" THEN
                [st EXCEPT !.expressionTokens =
                    Append(@, [type |-> "LITERAL", value |-> JStr(st.stringLiteral)])]
            ELSE IF st.expressionTokenString # <<>> THEN
                IF symbols.ok THEN [st EXCEPT !.expressionTokens = Append(@, symbols.v)]
                ELSE [st EXCEPT !.error = symbols]
            ELSE st
    IN  Close(parseSymbols(openToken, st.expressionTokenString))

\* params: expressionTokenString.trim().replace(/[\s]+/g, ' ').split(' ')
RECURSIVE SplitWords(_, _)
SplitWords(s, cur) ==
    IF s = <<>> THEN <<cur>>
    ELSE IF Head(s) \in WhitespaceChars THEN
        IF Len(s) > 1 /\ s[2] \in WhitespaceChars THEN SplitWords(Tail(s), cur)
        ELSE <<cur>> \o SplitWords(Tail(s), <<>>)
    ELSE SplitWords(Tail(s), Append(cur, Head(s)))

BlockParamNames(expressionTokenString) == SplitWords(Trim(expressionTokenString), <<>>)

LastSubToken(st) ==
    IF st.expressionTokens = <<>> THEN JNull
    ELSE st.expressionTokens[Len(st.expressionTokens)]

PopSubToken(tokens) == SubSeq(tokens, 1, Len(tokens) - 1)

\* The `=` branch of the character loop.
StartKeyValue(openToken, st) ==
    LET lastSubToken == LastSubToken(st)
        fromPath == lastSubToken # JNull /\ lastSubToken.type = "PATH"
        Start(key) ==
            IF ~key.ok THEN [st EXCEPT !.error = key]
            ELSE [st EXCEPT
                    \* Throw away the last PATH: it became the key.
                    !.expressionTokens = IF fromPath THEN PopSubToken(@) ELSE @,
                    !.inStartKeyValue = TRUE,
                    !.subToken = [type |-> "KEY_VALUE", key |-> key.v],
                    !.expressionTokenString = <<>>]
    IN  Start(validateKeyValueKey(openToken,
                IF fromPath THEN lastSubToken.pathString
                ELSE st.expressionTokenString))

\* The `|` branch of the character loop (outside block params).
StartBlockParams(st) ==
    LET lastSubToken == LastSubToken(st)
        isAs == /\ lastSubToken # JNull
                /\ lastSubToken.type = "PATH"
                /\ lastSubToken.path # <<>>
                /\ lastSubToken.path[1] = JStr(<<"a", "s">>)
    IN
    [st EXCEPT
        \* Throw away the "as" PATH.
        !.expressionTokens = IF isAs THEN PopSubToken(@) ELSE @,
        !.inBlockParams = TRUE,
        !.subToken = [type |-> "BLOCK_PARAMS"],
        !.expressionTokenString = <<>>]

\* One iteration of the character loop of parseExpression on character c.
ExpressionChar(openToken, st0, c) ==
    LET absorbed == st0.inStartKeyValue /\ c \in WhitespaceChars
        st == IF st0.inStartKeyValue /\ ~absorbed
              THEN [st0 EXCEPT !.inStartKeyValue = FALSE]
              ELSE st0
    IN
    IF absorbed THEN st0
    ELSE IF st.inStringLiteral # "" THEN
        IF c = st.inStringLiteral THEN
            [closeSpaceDelineatedSubToken(openToken, st) EXCEPT
                !.inStringLiteral = "", !.stringLiteral = <<>>]
        ELSE [st EXCEPT !.stringLiteral = Append(@, c)]
    ELSE IF st.inBracket THEN
        [st EXCEPT !.expressionTokenString = Append(@, c),
                   !.inBracket = (c # "]")]
    ELSE IF st.inBlockParams THEN
        IF c = "|" THEN
            [st EXCEPT
                !.expressionTokens =
                    IF st.subToken # JNull
                    THEN Append(@, [type   |-> "BLOCK_PARAMS",
                                    params |-> BlockParamNames(st.expressionTokenString)])
                    ELSE @,
                !.subToken = JNull,
                !.inBlockParams = FALSE,
                !.expressionTokenString = <<>>]
        ELSE [st EXCEPT !.expressionTokenString = Append(@, c)]
    ELSE IF c = "[" THEN
        [st EXCEPT !.inBracket = TRUE, !.expressionTokenString = Append(@, c)]
    ELSE IF c = "\"" \/ c = "'" THEN
        [st EXCEPT !.inStringLiteral = c, !.stringLiteral = <<>>]
    ELSE IF c = "=" THEN StartKeyValue(openToken, st)
    ELSE IF c = "|" THEN StartBlockParams(st)
    ELSE IF c \in WhitespaceChars THEN
        [closeSpaceDelineatedSubToken(openToken, st) EXCEPT
            !.expressionTokenString = <<>>]
    ELSE [st EXCEPT !.expressionTokenString = Append(@, c)]

RECURSIVE ExpressionLoop(_, _, _, _)
ExpressionLoop(openToken, tokenString, charIndex, st) ==
    IF st.error # JNull \/ charIndex >= Len(tokenString) THEN st
    ELSE ExpressionLoop(openToken, tokenString, charIndex + 1,
                        ExpressionChar(openToken, st, tokenString[charIndex + 1]))

\* The local variables of parseExpression before the character loop.
ExpressionInit ==
    [expressionTokens      |-> <<>>,
     subToken              |-> JNull,
     expressionTokenString |-> <<>>,
     inBracket             |-> FALSE,
     inBlockParams         |-> FALSE,
     inStringLiteral       |-> "",
     inStartKeyValue       |-> FALSE,
     stringLiteral         |-> <<>>,
     error                 |-> JNull]

\* ExpressionEnd without the check of a key/value left without a value.
EndWithoutKeyValueCheck(openToken, st) ==
    LET Result(final) ==
            IF final.error # JNull THEN final.error
            ELSE Ok(final.expressionTokens)
    IN
    IF st.error # JNull THEN st.error
    ELSE IF st.inBracket THEN
        Throw(LineSyntaxError("Unclosed bracket \"[...]\" in expression", openToken))
    ELSE IF st.inBlockParams THEN
        Throw(LineSyntaxError("Unclosed block params in expression", openToken))
    ELSE IF st.inStringLiteral # "" THEN
        Throw(LineSyntaxError("Unclosed string literal in expression", openToken))
    ELSE Result(closeSpaceDelineatedSubToken(openToken, st))

\* The end of parseExpression, after the character loop: the error thrown
\* in the loop, the four checks, the last closeSpaceDelineatedSubToken.
ExpressionEnd(openToken, st) ==
    LET Result(final) ==
            IF final.error # JNull THEN final.error
            ELSE Ok(final.expressionTokens)
    IN
    IF st.error # JNull THEN st.error
    ELSE IF st.inBracket THEN
        Throw(LineSyntaxError("Unclosed bracket \"[...]\" in expression", openToken))
    ELSE IF st.inBlockParams THEN
        Throw(LineSyntaxError("Unclosed block params in expression", openToken))
    ELSE IF st.inStringLiteral # "" THEN
        Throw(LineSyntaxError("Unclosed string literal in expression", openToken))
    ELSE IF st.inStartKeyValue THEN
        Throw(LineSyntaxError(
            "No value defined for key/value after \"=\" in expression", openToken))
    ELSE Result(closeSpaceDelineatedSubToken(openToken, st))

\* parseExpression(openToken, closeToken, tokenString): Ok(sub-tokens) or the
\* LineSyntaxError thrown.
parseExpression(openToken, tokenString) ==
    ExpressionEnd(openToken,
                  ExpressionLoop(openToken, tokenString, 0, ExpressionInit))

(***************************************************************************)
(* build-syntax-tree.js: the tree builder.                                 *)
(* The tree is a sequence of nodes; a BLOCK_OPEN node holds its children.  *)
(* blocks, the stack of open blocks, holds for each open block the path    *)
(* (child indexes from the root) of its node in the tree.                  *)
(***************************************************************************)
RECURSIVE ChildrenAt(_, _)
ChildrenAt(nodes, path) ==
    IF path = <<>> THEN nodes
    ELSE ChildrenAt(nodes[Head(path)].children, Tail(path))

RECURSIVE AppendAt(_, _, _)
AppendAt(nodes, path, node) ==
    IF path = <<>> THEN Append(nodes, node)
    ELSE [nodes EXCEPT ![Head(path)].children = AppendAt(@, Tail(path), node)]

\* The children list a new node is pushed to: that of the innermost open
\* block, or the tree itself.
TopPath(blocks) == IF blocks = <<>> THEN <<>> ELSE blocks[Len(blocks)]

pushNode(bs, node) ==
    [bs EXCEPT !.tree = AppendAt(@, TopPath(bs.blocks), node)]

pushBlockOpen(bs, node) ==
    LET parent == TopPath(bs.blocks)
        index  == Len(ChildrenAt(bs.tree, parent)) + 1
    IN  [bs EXCEPT !.tree   = AppendAt(@, parent, node),
                   !.blocks = Append(@, Append(parent, index))]

\* pushBlockClose comparing the name of the close tag with the helper name
\* of the block on top of the stack.
BlockCloseMatchingName(bs, node) ==
    LET exp == IF bs.blocks = <<>> THEN <<>>
               ELSE ChildrenAt(bs.tree, SubSeq(TopPath(bs.blocks), 1, Len(TopPath(bs.blocks)) - 1))
                        [TopPath(bs.blocks)[Len(TopPath(bs.blocks))]].exp
    IN  IF exp # <<>> /\ exp[1].type = "PATH" /\ exp[1].pathString # node.exp
        THEN [bs EXCEPT !.error = Throw(LineSyntaxError("Block name mismatch", node.tokens[1]))]
        ELSE [bs EXCEPT !.tree   = AppendAt(@, TopPath(bs.blocks), node),
                        !.blocks = IF @ = <<>> THEN @ ELSE SubSeq(@, 1, Len(@) - 1)]

\* pushBlockClose without blocks.pop().
BlockCloseWithoutPop(bs, node) ==
    [bs EXCEPT !.tree = AppendAt(@, TopPath(bs.blocks), node)]

pushBlockClose(bs, node) ==
    [bs EXCEPT !.tree   = AppendAt(@, TopPath(bs.blocks), node),
               !.blocks = IF @ = <<>> THEN @ ELSE SubSeq(@, 1, Len(@) - 1)]

createExpressionNode(openToken, parts, tokenString) ==
    LET Node(exp) ==
            IF ~exp.ok THEN exp
            ELSE Ok([type   |-> IF Len(exp.v) <= 1 THEN "PATH_EXPRESSION"
                                ELSE "HELPER_EXPRESSION",
                     exp    |-> exp.v,
                     tokens |-> parts])
    IN  Node(parseExpression(openToken, tokenString))

\* addExpression(openToken, closeToken, parts)
addExpression(bs, openToken, parts) ==
    LET tokenString ==
            Join([i \in 1..Len(parts) |-> Trim(parts[i].tokenString)], <<" ">>)
        rest == Trim(Slice(tokenString, 1, Len(tokenString)))
        BlockOpen(exp) ==
            IF ~exp.ok THEN [bs EXCEPT !.error = exp]
            ELSE pushBlockOpen(bs, [type     |-> "BLOCK_OPEN",
                                    exp      |-> exp.v,
                                    children |-> <<>>,
                                    tokens   |-> parts])
        Expression(node) ==
            IF ~node.ok THEN [bs EXCEPT !.error = node]
            ELSE pushNode(bs, node.v)
    IN
    IF StartsWith(tokenString, "#") THEN
        BlockOpen(parseExpression(openToken, rest))
    ELSE IF StartsWith(tokenString, "/") THEN
        pushBlockClose(bs, [type |-> "BLOCK_CLOSE", exp |-> rest, tokens |-> parts])
    ELSE IF StartsWith(tokenString, ">") THEN
        pushNode(bs, [type |-> "PARTIAL", exp |-> rest, tokens |-> parts])
    ELSE IF tokenString = <<"e", "l", "s", "e">> THEN
        pushNode(bs, [type |-> "ELSE", tokens |-> parts])
    ELSE
        Expression(createExpressionNode(openToken, parts, tokenString))

\* The state of buildSyntaxTree before the token loop.
BuildInit ==
    [tree              |-> <<>>,
     blocks            |-> <<>>,
     mustacheOpenToken |-> JNull,
     commentOpenToken  |-> JNull,
     expressionParts   |-> <<>>,
     error             |-> JNull]

\* One iteration of the token loop.
BuildToken(bs, token) ==
    IF token.tokenString = MustacheOpen THEN
        IF bs.mustacheOpenToken # JNull THEN
            [bs EXCEPT !.error = Throw(LineSyntaxError(
                "Failed to close mustache opened in", bs.mustacheOpenToken))]
        ELSE [bs EXCEPT !.mustacheOpenToken = token]
    ELSE IF token.tokenString = CommentOpen THEN
        IF bs.commentOpenToken # JNull THEN
            [bs EXCEPT !.error = Throw(LineSyntaxError(
                "Failed to close comment opened in", bs.commentOpenToken))]
        ELSE [bs EXCEPT !.commentOpenToken = token]
    ELSE IF bs.mustacheOpenToken # JNull /\ token.tokenString = MustacheClose THEN
        [addExpression(bs, bs.mustacheOpenToken, bs.expressionParts) EXCEPT
            !.expressionParts = <<>>,
            !.mustacheOpenToken = JNull]
    ELSE IF bs.commentOpenToken # JNull /\ token.tokenString = CommentClose THEN
        [bs EXCEPT !.commentOpenToken = JNull]
    ELSE IF bs.mustacheOpenToken # JNull THEN
        [bs EXCEPT !.expressionParts = Append(@, token)]
    ELSE IF bs.commentOpenToken # JNull THEN
        pushNode(bs, [type |-> "COMMENT", tokens |-> <<token>>])
    ELSE
        pushNode(bs, [type   |-> "CONTENT",
                      str    |-> token.tokenString,
                      tokens |-> <<token>>])

\* BuildFinish without the check of the open mustache.
FinishWithoutMustacheCheck(bs) ==
    IF bs.error # JNull THEN bs.error ELSE Ok(bs.tree)

\* BuildFinish without the check of the open comment.
FinishWithoutCommentCheck(bs) ==
    IF bs.error # JNull THEN bs.error
    ELSE IF bs.mustacheOpenToken # JNull THEN
        Throw(LineSyntaxError("Failed to close mustache opened in", bs.mustacheOpenToken))
    ELSE IF Len(bs.blocks) > 0 THEN
        Throw(LineSyntaxError("Failed to close block opened in",
                              ChildrenAt(bs.tree, SubSeq(bs.blocks[1], 1, Len(bs.blocks[1]) - 1))
                                  [bs.blocks[1][Len(bs.blocks[1])]].tokens[1]))
    ELSE Ok(bs.tree)

\* BuildFinish without the check of the open blocks.
FinishWithoutBlockCheck(bs) ==
    IF bs.error # JNull THEN bs.error
    ELSE IF bs.mustacheOpenToken # JNull THEN
        Throw(LineSyntaxError("Failed to close mustache opened in", bs.mustacheOpenToken))
    ELSE IF bs.commentOpenToken # JNull THEN
        Throw(LineSyntaxError("Failed to close comment opened in", bs.commentOpenToken))
    ELSE Ok(bs.tree)

\* The checks after the token loop: Ok(tree) or the error thrown.
BuildFinish(bs) ==
    IF bs.error # JNull THEN bs.error
    ELSE IF bs.mustacheOpenToken # JNull THEN
        Throw(LineSyntaxError("Failed to close mustache opened in", bs.mustacheOpenToken))
    ELSE IF bs.commentOpenToken # JNull THEN
        Throw(LineSyntaxError("Failed to close comment opened in", bs.commentOpenToken))
    ELSE IF Len(bs.blocks) > 0 THEN
        Throw(LineSyntaxError("Failed to close block opened in",
                              ChildrenAt(bs.tree, SubSeq(bs.blocks[1], 1, Len(bs.blocks[1]) - 1))
                                  [bs.blocks[1][Len(bs.blocks[1])]].tokens[1]))
    ELSE Ok(bs.tree)

RECURSIVE BuildLoop(_, _, _)
BuildLoop(bs, tokens, i) ==
    IF bs.error # JNull \/ i > Len(tokens) THEN bs
    ELSE BuildLoop(BuildToken(bs, tokens[i]), tokens, i + 1)

\* buildSyntaxTree(options, tokens)
buildSyntaxTree(tokens) == BuildFinish(BuildLoop(BuildInit, tokens, 1))

(***************************************************************************)
(* create-render-function.js: compilation.                                 *)
(* A render function (a closure in the source) is a record naming its kind *)
(* and holding what the closure captured:                                  *)
(*   scoped  renderContext of createScopedRenderer: parts                  *)
(*   noop    noopRender                                                    *)
(*   error   renderContext returned for a missing helper or partial: err   *)
(*   helper  renderHelper of createScopedHelperRenderer: its arguments     *)
(***************************************************************************)
NoopRender == [kind |-> "noop"]

\* The helper and partial registries are Maps: functions from names (texts)
\* to values.
MapHas(map, key) == key \in DOMAIN map
MapSet(map, key, val) == [k \in DOMAIN map \cup {key} |-> IF k = key THEN val ELSE map[k]]

\* node.token: the syntax tree's nodes carry `tokens`, so the property is
\* undefined unless the caller's nodes define it.
TokenOf(node) == IF "token" \in DOMAIN node THEN node.token ELSE JUndefined

\* const { line, lineNumber, ... } = expressionToken.token throws when the
\* token is undefined.
DestructureError == TypeError("Cannot destructure property of undefined")

\* The renderer returned when a helper or a partial is missing.
MissingRenderer(message, name, node) ==
    LET token == TokenOf(node) IN
    IF token = JUndefined THEN Throw(DestructureError)
    ELSE Ok([kind |-> "error",
             err  |-> [LineSyntaxError(message, token) EXCEPT !.message = <<message, name>>]])

\* createPartialRenderer(token): the partial is looked up when the
\* referencing template is compiled.
createPartialRenderer(partials, token) ==
    IF MapHas(partials, token.exp) THEN Ok(partials[token.exp])
    ELSE MissingRenderer("No partial named", token.exp, token)

\* The classification of the expression's arguments in createHelperRenderer.
PositionalArguments(rest) == SelectSeq(rest, LAMBDA t : t.type \in {"PATH", "LITERAL"})

RECURSIVE NamedArguments(_, _)
NamedArguments(rest, acc) ==
    IF rest = <<>> THEN acc
    ELSE NamedArguments(Tail(rest),
            IF Head(rest).type = "KEY_VALUE"
            THEN MapSet(acc, Head(rest).key, Head(rest).value)
            ELSE acc)

RECURSIVE BlockParams(_, _)
BlockParams(rest, acc) ==
    IF rest = <<>> THEN acc
    ELSE BlockParams(Tail(rest),
            IF Head(rest).type = "BLOCK_PARAMS" THEN Head(rest).params ELSE acc)

\* The index of the first child that is an ELSE or a block with an ELSE
\* among its children.
RECURSIVE ElseIndexNested(_, _)
ElseIndexNested(children, i) ==
    IF i > Len(children) THEN 0
    ELSE IF children[i].type = "ELSE" THEN i
    ELSE IF "children" \in DOMAIN children[i]
            /\ \E j \in 1..Len(children[i].children) :
                    children[i].children[j].type = "ELSE" THEN i
    ELSE ElseIndexNested(children, i + 1)

\* The partition of a block's children at its ELSE marker.
RECURSIVE ElseIndex(_, _)
ElseIndex(children, i) ==
    IF i > Len(children) THEN 0
    ELSE IF children[i].type = "ELSE" THEN i
    ELSE ElseIndex(children, i + 1)

RenderTokens(children) ==
    LET e == ElseIndex(children, 1) IN
    IF e = 0 THEN children ELSE SubSeq(children, 1, e - 1)

InverseRenderTokens(children) ==
    LET e == ElseIndex(children, 1) IN
    IF e = 0 THEN <<>> ELSE SubSeq(children, e + 1, Len(children))

\* createScopedRenderer(parts): the closure renderContext over parts.
createScopedRenderer(parts) == [kind |-> "scoped", parts |-> parts]

\* A merge that keeps the text of the first node only.
MergeDropsText(last, token) == last

\* newTokenStream[newTokenStream.length - 1].str += token.str
MergeContent(last, token) == [last EXCEPT !.str = @ \o token.str]

\* createRenderer(theseTokens) and createHelperRenderer(expressionToken)
\* call each other.  Both return the value built (or the error thrown) and
\* the nodes as compilation leaves them: merging CONTENT tokens appends to
\* the str of the node first pushed, which is the tree's own node.
RECURSIVE RendererLoop(_, _, _, _), createHelperRenderer(_, _)

\* st = [stream, last, tokens]: the new token stream, the index in tokens of
\* the node its last CONTENT entry is (0: none), and the nodes.
RendererLoop(env, theseTokens, i, st) ==
    IF i > Len(theseTokens) THEN [ok |-> TRUE, st |-> st]
    ELSE
    LET token == st.tokens[i] IN
    CASE token.type = "CONTENT" ->
            IF st.last # 0 THEN
                LET merged == MergeContent(st.tokens[st.last], token) IN
                RendererLoop(env, theseTokens, i + 1,
                    [stream |-> [st.stream EXCEPT ![Len(st.stream)] = merged],
                     last   |-> st.last,
                     tokens |-> [st.tokens EXCEPT ![st.last] = merged]])
            ELSE
                RendererLoop(env, theseTokens, i + 1,
                    [st EXCEPT !.stream = Append(@, token), !.last = i])
      [] token.type = "PATH_EXPRESSION" ->
            \* Object.assign({}, token, { exp: token.exp[0] })
            RendererLoop(env, theseTokens, i + 1,
                [st EXCEPT !.stream = Append(@,
                                [token EXCEPT !.exp = IF token.exp = <<>>
                                                      THEN JUndefined
                                                      ELSE token.exp[1]]),
                           !.last = 0])
      [] token.type \in {"HELPER_EXPRESSION", "BLOCK_OPEN"} ->
            LET Helper(r) ==
                    LET tokens == [st.tokens EXCEPT ![i] =
                                    IF "children" \in DOMAIN token
                                    THEN [token EXCEPT !.children = r.children]
                                    ELSE token]
                    IN
                    IF ~r.ok THEN [ok |-> FALSE, err |-> r.err,
                                   st |-> [st EXCEPT !.tokens = tokens]]
                    ELSE RendererLoop(env, theseTokens, i + 1,
                            [stream |-> Append(st.stream,
                                            [type   |-> "HELPER_FUNCTION",
                                             exp    |-> token.exp,
                                             tokens |-> token.tokens,
                                             render |-> r.v]),
                             last   |-> 0,
                             tokens |-> tokens])
            IN  Helper(createHelperRenderer(env, token))
      [] token.type = "PARTIAL" ->
            LET Partial(r) ==
                    IF ~r.ok THEN [ok |-> FALSE, err |-> r.err, st |-> st]
                    ELSE RendererLoop(env, theseTokens, i + 1,
                            [st EXCEPT !.stream = Append(@,
                                            [type   |-> "PARTIAL_FUNCTION",
                                             exp    |-> token.exp,
                                             tokens |-> token.tokens,
                                             render |-> r.v]),
                                       !.last = 0])
            IN  Partial(createPartialRenderer(env.partials, token))
      [] OTHER -> RendererLoop(env, theseTokens, i + 1, st)

\* createRenderer(theseTokens): [ok, v | err, tokens].
createRenderer(env, theseTokens) ==
    LET Renderer(r) ==
            IF r.ok THEN [ok |-> TRUE, v |-> createScopedRenderer(r.st.stream),
                          tokens |-> r.st.tokens]
            ELSE [ok |-> FALSE, err |-> r.err, tokens |-> r.st.tokens]
    IN  Renderer(RendererLoop(env, theseTokens, 1,
                    [stream |-> <<>>, last |-> 0, tokens |-> theseTokens]))

\* createHelperRenderer(expressionToken): [ok, v | err, children].
createHelperRenderer(env, expressionToken) ==
    LET children == IF "children" \in DOMAIN expressionToken
                    THEN expressionToken.children ELSE <<>>
        first == IF expressionToken.exp = <<>> THEN JUndefined
                 ELSE expressionToken.exp[1]
    IN
    \* expressionToken.exp[0].path[0]
    IF first = JUndefined \/ first.type # "PATH" THEN
        [ok |-> FALSE, err |-> TypeError("Cannot read properties of undefined"),
         children |-> children]
    ELSE
    LET helperName == IF first.path = <<>> THEN JUndefined ELSE first.path[1]
        found == helperName.t = "string" /\ MapHas(env.helpers, helperName.v)
        missing == MissingRenderer("No helper named", helperName.v, expressionToken)
        rest == Tail(expressionToken.exp)
        e == ElseIndex(children, 1)
        renderTokens == RenderTokens(children)
        inverseRenderTokens == InverseRenderTokens(children)
        Scoped(primary, inverse) ==
            LET children1 ==
                    IF renderTokens = <<>> THEN children
                    ELSE primary.tokens
                            \o SubSeq(children, Len(renderTokens) + 1, Len(children))
                children2 ==
                    IF inverseRenderTokens = <<>> THEN children1
                    ELSE SubSeq(children1, 1, e) \o inverse.tokens
            IN
            IF renderTokens # <<>> /\ ~primary.ok THEN
                [ok |-> FALSE, err |-> primary.err, children |-> children1]
            ELSE IF inverseRenderTokens # <<>> /\ ~inverse.ok THEN
                [ok |-> FALSE, err |-> inverse.err, children |-> children2]
            ELSE
                \* createScopedHelperRenderer(args)
                [ok |-> TRUE,
                 v  |-> [kind                |-> "helper",
                         expressionToken     |-> expressionToken,
                         positionalArguments |-> PositionalArguments(rest),
                         namedArguments      |-> NamedArguments(rest, <<>>),
                         blockParams         |-> BlockParams(rest, <<>>),
                         helperName          |-> helperName.v,
                         helperFunction      |-> env.helpers[helperName.v],
                         renderPrimary       |-> IF renderTokens # <<>>
                                                 THEN primary.v ELSE NoopRender,
                         renderInverse       |-> IF inverseRenderTokens # <<>>
                                                 THEN inverse.v ELSE NoopRender],
                 children |-> children2]
    IN
    IF ~found THEN
        IF missing.ok THEN [ok |-> TRUE, v |-> missing.v, children |-> children]
        ELSE [ok |-> FALSE, err |-> missing.err, children |-> children]
    ELSE Scoped(createRenderer(env, renderTokens),
                createRenderer(env, inverseRenderTokens))

\* createRenderFunction(options, onerror, partials, helpers, tokens):
\* the render function (or the error thrown) and the tree as it is left.
createRenderFunction(env, tokens) == createRenderer(env, tokens)

(***************************************************************************)
(* JavaScript coercions and property access used while rendering.          *)
(***************************************************************************)
DigitChar(d) ==
    CASE d = 0 -> "0" [] d = 1 -> "1" [] d = 2 -> "2" [] d = 3 -> "3"
      [] d = 4 -> "4" [] d = 5 -> "5" [] d = 6 -> "6" [] d = 7 -> "7"
      [] d = 8 -> "8" [] d = 9 -> "9"

RECURSIVE NatToText(_)
NatToText(n) ==
    IF n < 10 THEN <<DigitChar(n)>>
    ELSE Append(NatToText(n \div 10), DigitChar(n % 10))

UndefinedText == <<"u", "n", "d", "e", "f", "i", "n", "e", "d">>

\* String(value), as `output += value` and `value + ''` apply it.
RECURSIVE JsToString(_)
JsToString(val) ==
    CASE val.t = "string"    -> val.v
      [] val.t = "number"    -> NatToText(val.v)
      [] val.t = "boolean"   -> IF val.v THEN <<"t", "r", "u", "e">>
                                ELSE <<"f", "a", "l", "s", "e">>
      [] val.t = "undefined" -> UndefinedText
      [] val.t = "null"      -> <<"n", "u", "l", "l">>
      [] val.t = "array"     ->
            Join([i \in 1..Len(val.v) |->
                    IF val.v[i].t \in {"undefined", "null"} THEN <<>>
                    ELSE JsToString(val.v[i])], <<",">>)
      [] val.t = "function"  -> <<"function ", val.v>>
      [] OTHER               -> <<"[object Object]">>

\* isNaN(value): whether Number(value) is NaN.
IsNumericText(s) == s = <<>> \/ \A i \in 1..Len(s) : s[i] \in Digits

IsNaN(val) ==
    CASE val.t = "number"    -> FALSE
      [] val.t = "boolean"   -> FALSE
      [] val.t = "null"      -> FALSE
      [] val.t = "undefined" -> TRUE
      [] val.t = "string"    -> ~IsNumericText(Trim(val.v))
      [] val.t = "array"     -> ~IsNumericText(Trim(JsToString(val)))
      [] OTHER               -> TRUE

\* A property key as the string JavaScript converts it to.
KeyText(key) == JsToString(key)

\* Whether a key text is a canonical array index.
IsIndexText(k) ==
    /\ k # <<>>
    /\ \A i \in 1..Len(k) : k[i] \in Digits
    /\ (Len(k) > 1 => k[1] # "0")

LengthText == <<"l", "e", "n", "g", "t", "h">>

\* val[key]: throws for undefined and null; own properties only.
GetProp(val, key) ==
    LET k == KeyText(key) IN
    CASE val.t \in {"undefined", "null"} ->
            Throw(TypeError("Cannot read properties of undefined"))
      [] val.t = "object" ->
            Ok(IF k \in DOMAIN val.v THEN val.v[k] ELSE JUndefined)
      [] val.t = "array" ->
            Ok(IF k = LengthText THEN JNum(Len(val.v))
               ELSE IF IsIndexText(k) /\ ParseInt(k, 0) < Len(val.v)
               THEN val.v[ParseInt(k, 0) + 1]
               ELSE JUndefined)
      [] val.t = "string" ->
            Ok(IF k = LengthText THEN JNum(Len(val.v))
               ELSE IF IsIndexText(k) /\ ParseInt(k, 0) < Len(val.v)
               THEN JStr(<<val.v[ParseInt(k, 0) + 1]>>)
               ELSE JUndefined)
      [] OTHER -> Ok(JUndefined)

\* The own enumerable properties Object.assign copies from a source.
OwnProps(val) ==
    CASE val.t = "object" -> val.v
      [] val.t = "array"  ->
            [k \in {NatToText(i - 1) : i \in 1..Len(val.v)} |-> val.v[ParseInt(k, 0) + 1]]
      [] val.t = "string" ->
            [k \in {NatToText(i - 1) : i \in 1..Len(val.v)} |-> JStr(<<val.v[ParseInt(k, 0) + 1]>>)]
      [] OTHER -> <<>>

\* Object.assign({}, b): the enclosing properties are dropped.
AssignWithoutEnclosing(a, b) == JObj(OwnProps(b))

\* Object.assign({}, a, b)
ObjectAssign(a, b) ==
    LET pa == OwnProps(a)
        pb == OwnProps(b)
    IN  JObj([k \in DOMAIN pa \cup DOMAIN pb |-> IF k \in DOMAIN pb THEN pb[k] ELSE pa[k]])

(***************************************************************************)
(* create-render-function.js: the render functions.                        *)
(* env = [options, helpers, partials]: the variables of the closure.       *)
(* A function value JFn(id) is called by CallFunction; a helper receives   *)
(* the helperUtils object as a record [t |-> "helperUtils", ...].          *)
(***************************************************************************)
Arg(args, i) == IF i <= Len(args) THEN args[i] ELSE JUndefined

\* createScopedRenderer's switch: the part types it renders.
IsContentPart(part)    == part.type = "CONTENT"
DispatchPathExpression(part) == part.type = "PATH_EXPRESSION"
IsExpressionPart(part) == part.type = "EXPRESSION"
IsFunctionPart(part)   == part.type \in {"HELPER_FUNCTION", "PARTIAL_FUNCTION"}

\* How createScopedHelperRenderer calls the helper: the value of `this` and
\* the arguments.
HelperThis(helperUtils) == JUndefined
HelperArgs(helperUtils, context, namedArgs, positionalArgs) ==
    <<helperUtils, context, namedArgs>> \o positionalArgs

\* dereferencePath without the look-up in the helper registry.
RECURSIVE DereferenceContextOnly(_, _, _, _)
DereferenceContextOnly(env, val, path, level) ==
    IF level = Len(path) THEN Ok(val)
    ELSE
        LET Descend(next) ==
                IF next.ok THEN DereferenceContextOnly(env, next.v, path, level + 1)
                ELSE next
        IN  Descend(GetProp(val, path[level + 1]))

RECURSIVE dereferencePath(_, _, _, _)
dereferencePath(env, val, path, level) ==
    IF level = Len(path) THEN Ok(val)
    ELSE IF Len(path) = 1 /\ path[1].t = "string" /\ MapHas(env.helpers, path[1].v)
    THEN Ok(env.helpers[path[1].v])
    ELSE
        LET Descend(next) ==
                IF next.ok THEN dereferencePath(env, next.v, path, level + 1) ELSE next
        IN  Descend(GetProp(val, path[level + 1]))

\* The catch blocks: they read expressionToken.token before anything else.
\* Returns the replacement value, or the error the catch block itself throws.
CatchLineError(env, expressionToken, message, name) ==
    IF TokenOf(expressionToken) = JUndefined THEN Throw(DestructureError)
    ELSE Ok(JStr(IF env.options.includeErrorMessages THEN <<message, name>> ELSE <<>>))

\* A result together with the context object as the call leaves it; a
\* result without the field context left the object untouched.
WithContext(r, context) ==
    IF r.ok THEN [ok |-> TRUE, v |-> r.v, context |-> context]
    ELSE [ok |-> FALSE, err |-> r.err, context |-> context]

ContextAfter(r, context) == IF "context" \in DOMAIN r THEN r.context ELSE context

\* Object.assign(context, newContext): the context is the object written.
AssignedInPlace(context, merged) == merged

\* The context object after Object.assign({}, context, newContext), where
\* merged is the object returned, as the children's render leaves it: the
\* target is a new object, the context is only read.
AssignedContext(context, merged) == context

RECURSIVE CallRender(_, _, _), renderContext(_, _, _, _, _), renderHelper(_, _, _)
RECURSIVE safelyDereferencePath(_, _, _, _), CallFunction(_, _, _, _)
RECURSIVE MapArguments(_, _, _, _, _), HelperUtilsRender(_, _, _, _)
RECURSIVE each_helper(_, _, _), EachLoop(_, _, _, _, _, _, _, _, _)
RECURSIVE each(_, _), EachReduce(_, _, _, _, _, _, _)

\* The final coercion of safelyDereferencePath.
CoerceValue(value) ==
    IF value.t = "string" THEN value.v
    ELSE IF value.t \in {"undefined", "null"} \/ IsNaN(value) THEN <<>>
    ELSE JsToString(value)

safelyDereferencePath(env, expressionToken, arg, context) ==
    LET Coerced(value) ==
            IF value.ok THEN Ok(CoerceValue(value.v)) ELSE value
        Called(called) ==
            IF called.ok THEN called
            ELSE CatchLineError(env, expressionToken, "Error in helper", arg.pathString)
        Value(value) ==
            IF value.ok /\ value.v.t = "function"
            THEN Coerced(Called(CallFunction(env, value.v, JUndefined, <<context>>)))
            ELSE Coerced(value)
        Dereferenced(deref) ==
            IF deref.ok THEN deref
            ELSE CatchLineError(env, expressionToken,
                                "Unable to dereference path", arg.pathString)
    IN  Value(Dereferenced(
            IF arg = JUndefined \/ "path" \notin DOMAIN arg
            THEN Throw(TypeError("Cannot read properties of undefined"))
            ELSE dereferencePath(env, context, arg.path, 0)))

\* renderContext(context) of createScopedRenderer: Ok(output text) or the
\* error thrown.
renderContext(env, parts, i, context, output) ==
    IF i > Len(parts) THEN WithContext(Ok(JStr(output)), context)
    ELSE
    LET part == parts[i] IN
    IF IsContentPart(part) THEN
        renderContext(env, parts, i + 1, context, output \o part.str)
    ELSE IF IsExpressionPart(part) THEN
        LET Expression(r) ==
                IF r.ok THEN renderContext(env, parts, i + 1, context, output \o r.v)
                ELSE WithContext(r, ContextAfter(r, context))
        IN  Expression(safelyDereferencePath(env, part, part.exp, context))
    ELSE IF IsFunctionPart(part) THEN
        LET Function(r) ==
                IF r.ok
                THEN renderContext(env, parts, i + 1, ContextAfter(r, context),
                                   output \o JsToString(r.v))
                ELSE WithContext(r, ContextAfter(r, context))
        IN  Function(CallRender(env, part.render, context))
    ELSE renderContext(env, parts, i + 1, context, output)

\* Calling a render function.
CallRender(env, fn, context) ==
    CASE fn.kind = "scoped" -> renderContext(env, fn.parts, 1, context, <<>>)
      [] fn.kind = "noop"   -> Ok(JStr(<<>>))
      [] fn.kind = "error"  ->
            Ok(JStr(IF env.options.includeErrorMessages THEN fn.err.message ELSE <<>>))
      [] fn.kind = "helper" -> renderHelper(env, fn, context)

\* positionalArguments.map(mapArgument): the values, or the first error
\* thrown by a catch block of mapArgument.
MapArguments(env, h, context, args, acc) ==
    IF args = <<>> THEN Ok(acc)
    ELSE
    LET arg == Head(args)
        Mapped(value) ==
            IF value.ok
            THEN MapArguments(env, h, context, Tail(args), Append(acc, value.v))
            ELSE value
        Dereferenced(deref) ==
            IF deref.ok THEN deref
            ELSE CatchLineError(env, h.expressionToken,
                                "Unable to dereference path", arg.pathString)
    IN  Mapped(IF arg.type = "LITERAL" THEN Ok(arg.value)
               ELSE Dereferenced(dereferencePath(env, context, arg.path, 0)))

\* helperUtils.renderPrimary(newContext) and helperUtils.renderInverse.
HelperUtilsRender(env, helperUtils, which, newContext) ==
    IF helperUtils.t # "helperUtils"
    THEN Throw(TypeError("Cannot read properties of undefined"))
    ELSE
        LET Rendered(r) ==
                WithContext(r, AssignedContext(helperUtils.context,
                                               ContextAfter(r, helperUtils.context)))
        IN  Rendered(CallRender(env, helperUtils[which],
                                ObjectAssign(helperUtils.context, newContext)))

\* renderHelper(context) of createScopedHelperRenderer.
renderHelper(env, h, context) ==
    LET keys == DOMAIN h.namedArguments
        helperUtils == [t             |-> "helperUtils",
                        blockParams   |-> h.blockParams,
                        renderPrimary |-> h.renderPrimary,
                        renderInverse |-> h.renderInverse,
                        context       |-> context]
        Output(output) ==
            IF output.ok THEN output
            ELSE WithContext(CatchLineError(env, h.expressionToken,
                                            "Error in helper", h.helperName),
                             ContextAfter(output, context))
        Call(positionalArgs, named) ==
            IF ~positionalArgs.ok THEN positionalArgs
            ELSE IF \E k \in keys : ~named[k].ok THEN Throw(DestructureError)
            ELSE Output(CallFunction(env, h.helperFunction, HelperThis(helperUtils),
                            HelperArgs(helperUtils, context,
                                       JObj([k \in keys |-> named[k].v[1]]),
                                       positionalArgs.v)))
    IN  Call(MapArguments(env, h, context, h.positionalArguments, <<>>),
             [k \in keys |->
                MapArguments(env, h, context, <<h.namedArguments[k]>>, <<>>)])

(***************************************************************************)
(* Helper functions.  Values in the model are strings, numbers, booleans,  *)
(* null, undefined, arrays, plain objects and functions (no Map or Set).   *)
(***************************************************************************)
\* typeof value === 'object'
TypeofObject(val) == val.t \in {"null", "array", "object", "helperUtils"}

\* const [ itemName, indexName ] = blockParams
BlockParam(blockParams, i) ==
    IF i <= Len(blockParams) THEN JStr(blockParams[i]) ELSE JUndefined

\* An object with the one property key: value.
SetProp(obj, key, value) == JObj(MapSet(obj.v, KeyText(key), value))

\* lib/helpers/each.js, the reduce of the Array and the plain object
\* branches: indexes[i] is the index or the key of items[i].
EachLoop(env, this, context, items, indexes, i, str, itemName, indexName) ==
    IF i > Len(items) THEN WithContext(Ok(JStr(str)), this.context)
    ELSE
    LET withItem == SetProp(JObj(<<>>), itemName, items[i])
        subContext == IF IsTruthy(indexName)
                      THEN SetProp(withItem, indexName, indexes[i])
                      ELSE withItem
        Reduce(r) ==
            IF r.ok
            THEN EachLoop(env, [this EXCEPT !.context = r.context], context,
                          items, indexes, i + 1,
                          str \o JsToString(r.v), itemName, indexName)
            ELSE r
    IN  Reduce(HelperUtilsRender(env, this, "renderPrimary",
                                 ObjectAssign(context, subContext)))

\* Object.keys(obj) as a sequence.  The representation of an object does
\* not record insertion order; the objects iterated in the model have at
\* most one property.
RECURSIVE KeysOf(_)
KeysOf(keys) ==
    IF keys = {} THEN <<>>
    ELSE LET k == CHOOSE x \in keys : TRUE IN <<k>> \o KeysOf(keys \ {k})

\* lib/helpers/each.js: each_helper(context, options, iterableObject),
\* which reads this.blockParams, this.renderPrimary and this.renderInverse.
each_helper(env, this, args) ==
    LET context == Arg(args, 1)
        iterableObject == Arg(args, 3)
        blockParams == IF this.t = "helperUtils" THEN this.blockParams ELSE <<>>
        itemName == BlockParam(blockParams, 1)
        indexName == BlockParam(blockParams, 2)
        keys == KeysOf(DOMAIN iterableObject.v)
    IN
    IF iterableObject.t = "null" \/ ~TypeofObject(iterableObject) THEN
        HelperUtilsRender(env, this, "renderInverse", context)
    ELSE IF this.t # "helperUtils" THEN
        Throw(TypeError("Cannot read properties of undefined"))
    ELSE IF ~IsTruthy(itemName) THEN
        Throw(PlainError("The first block param |[itemName]| is required for the #each helper"))
    ELSE IF iterableObject.t = "array" THEN
        IF Len(iterableObject.v) = 0
        THEN HelperUtilsRender(env, this, "renderInverse", context)
        ELSE EachLoop(env, this, context, iterableObject.v,
                      [i \in 1..Len(iterableObject.v) |-> JNum(i - 1)], 1, <<>>,
                      itemName, indexName)
    ELSE IF iterableObject.t = "object" THEN
        EachLoop(env, this, context,
            [i \in 1..Len(keys) |-> iterableObject.v[keys[i]]],
            [i \in 1..Len(keys) |-> JStr(keys[i])], 1, <<>>,
            itemName, indexName)
    ELSE Ok(JStr(<<>>))

\* docs.md, the reduce of the each helper.
EachReduce(env, helper, items, i, str, itemName, indexName) ==
    IF i > Len(items) THEN WithContext(Ok(JStr(str)), helper.context)
    ELSE
    LET subContext == SetProp(SetProp(JObj(<<>>), itemName, items[i]),
                              indexName, JNum(i - 1))
        Reduce(r) ==
            IF r.ok
            THEN EachReduce(env, [helper EXCEPT !.context = r.context], items, i + 1,
                            str \o JsToString(r.v), itemName, indexName)
            ELSE r
    IN  Reduce(HelperUtilsRender(env, helper, "renderPrimary", subContext))

\* docs.md: each(helper, context, hash, list)
each(env, args) ==
    LET helper == Arg(args, 1)
        context == Arg(args, 2)
        list == Arg(args, 4)
    IN
    IF helper.t # "helperUtils" THEN
        Throw(TypeError("Cannot read properties of undefined"))
    ELSE IF list.t = "array" /\ Len(list.v) > 0 THEN
        EachReduce(env, helper, list.v, 1, <<>>,
                   BlockParam(helper.blockParams, 1), BlockParam(helper.blockParams, 2))
    ELSE HelperUtilsRender(env, helper, "renderInverse", context)

\* The helper of test11: it throws.
image == Throw(PlainError("Internal helper error"))

\* docs.md: link(helper, context, hash, label, href)
link(args) ==
    Ok(JStr(<<"<a href=\"">> \o JsToString(Arg(args, 5)) \o <<"\">">>
            \o JsToString(Arg(args, 4)) \o <<"</a>">>))

\* Calling a function value with a `this` and arguments.
CallFunction(env, fn, this, args) ==
    CASE fn.v = "each_helper" -> each_helper(env, this, args)
      [] fn.v = "each"        -> each(env, args)
      [] fn.v = "image"       -> image
      [] fn.v = "link"        -> link(args)

(***************************************************************************)
(* The templates, contexts and registries the model draws from.            *)
(***************************************************************************)
\* literal text
FragLiteral == <<"a", "b">>
\* a line break
FragNewline == <<"\n">>
\* {{ x }}
FragPath == <<"{", "{", " ", "x", " ", "}", "}">>
\* {{{ x }}}
FragTriple == <<"{", "{", "{", " ", "x", " ", "}", "}", "}">>
\* {{ a.b.c }}
FragDeepPath == <<"{", "{", " ", "a", ".", "b", ".", "c", " ", "}", "}">>
\* {{ list[0] }}
FragIndex0 == <<"{", "{", " ", "l", "i", "s", "t", "[", "0", "]", " ", "}", "}">>
\* {{ list[1] }}
FragIndex1 == <<"{", "{", " ", "l", "i", "s", "t", "[", "1", "]", " ", "}", "}">>
\* {{image images[0] }} (test11)
FragImage == <<"{", "{", "i", "m", "a", "g", "e", " ", "i", "m", "a", "g", "e", "s", "[", "0", "]", " ", "}", "}">>
\* {{foo bar}}: no helper is named foo
FragMissingHelper == <<"{", "{", "f", "o", "o", " ", "b", "a", "r", "}", "}">>
\* {{> p }}
FragPartial == <<"{", "{", ">", " ", "p", " ", "}", "}">>
\* an unclosed {{
FragUnclosed == <<"{", "{", " ", "x">>
\* an unclosed comment
FragUnclosedComment == <<"{", "{", "!", "-", "-", " ", "c">>
\* the each block
FragEach == <<"{", "{", "#", "e", "a", "c", "h", " ", "i", "t", "e", "m", "s", " ", "a", "s", " ", "|", "i", "t", "e", "m", "|", "}", "}", "{", "{", "i", "t", "e", "m", "}", "}", "{", "{", "e", "l", "s", "e", "}", "}", "n", "o", "n", "e", "{", "{", "/", "e", "a", "c", "h", "}", "}">>

\* an unclosed block
FragOpenBlock == <<"{", "{", "#", "i", "f", " ", "x", "}", "}">>
\* a block with an else, whose first child is a block with an else
FragNestedElse == <<"{", "{", "#", "e", "a", "c", "h", " ", "i", "t", "e", "m", "s", " ", "a", "s", " ", "|", "x", "|", "}", "}", "{", "{", "#", "e", "a", "c", "h", " ", "l", "i", "s", "t", " ", "a", "s", " ", "|", "y", "|", "}", "}", "A", "{", "{", "e", "l", "s", "e", "}", "}", "B", "{", "{", "/", "e", "a", "c", "h", "}", "}", "{", "{", "e", "l", "s", "e", "}", "}", "C", "{", "{", "/", "e", "a", "c", "h", "}", "}">>
\* the end of a block, with another name
FragCloseOther == <<"{", "{", "/", "b", "}", "}">>
\* a comment with an expression in it, over two lines
FragComment == <<"{", "{", "!", "-", "-", " ", "{", "{", " ", "x", " ", "}", "}", "\n", "}", "}", " ", "-", "-", "}", "}">>
\* a comment whose text is {{
FragCommentedOpen == <<"{", "{", "!", "-", "-", "{", "{", "-", "-", "}", "}">>
\* a block whose children name x, which the block binds, and list, which
\* the enclosing context binds
FragEachLink == <<"{", "{", "#", "e", "a", "c", "h", " ", "i", "t", "e", "m", "s", " ", "a", "s", " ", "|", "x", "|", "}", "}", "{", "{", "l", "i", "n", "k", " ", "x", " ", "l", "i", "s", "t", "}", "}", "{", "{", "e", "l", "s", "e", "}", "}", "{", "{", "l", "i", "n", "k", " ", "x", " ", "l", "i", "s", "t", "}", "}", "{", "{", "/", "e", "a", "c", "h", "}", "}">>
\* an inline helper with the arguments link and link.x
FragShadow == <<"{", "{", "l", "i", "n", "k", " ", "l", "i", "n", "k", " ", "l", "i", "n", "k", ".", "x", "}", "}">>

\* a path that continues with a dot after a bracket segment
FragImageSrc == <<"{", "{", " ", "i", "m", "a", "g", "e", "s", "[", "0", "]", ".", "s", "r", "c", " ", "}", "}">>

\* The fragments that sources are concatenated from.
Fragments ==
    {FragLiteral, FragNewline, FragPath, FragTriple, FragDeepPath,
     FragMissingHelper, FragPartial, FragUnclosed,
     <<"{", "{", ".", "a", "}", "}">>,       \* a path starting with "."
     <<"{", "{", "/", "i", "f", "}", "}">>,  \* the end of a block
     FragUnclosedComment, FragEach,
     FragOpenBlock, FragComment, FragCommentedOpen, FragCloseOther}

NameX == <<"x">>
NameList == <<"l", "i", "s", "t">>
NameImages == <<"i", "m", "a", "g", "e", "s">>
NameItems == <<"i", "t", "e", "m", "s">>
NameEach == <<"e", "a", "c", "h">>
NameImage == <<"i", "m", "a", "g", "e">>
NameP == <<"p">>
NameLink == <<"l", "i", "n", "k">>

\* The sources: the concatenations of at most MaxFrags fragments.
RECURSIVE SourcesOf(_)
SourcesOf(n) ==
    IF n = 0 THEN {<<>>}
    ELSE SourcesOf(n - 1) \cup {s \o f : s \in SourcesOf(n - 1), f \in Fragments}

ContextWith(items) ==
    JObj([k \in {NameX, NameList, NameImages, NameItems} |->
            CASE k = NameX      -> JStr(<<"<", "b", ">">>)
              [] k = NameList   -> JArr(<<JStr(<<"a">>), JStr(<<"b">>)>>)
              [] k = NameImages -> JArr(<<JStr(<<"/", "i">>)>>)
              [] k = NameItems  -> JArr(items)])

EmptyContext == JObj(<<>>)
EmptyItemsContext == ContextWith(<<>>)
\* items = [1, 2], a = {} (an object without the property b),
\* link = { x: "L" } (a property with the name of a helper), and
\* images = [ { src: "s" } ]
TwoItemsContext ==
    JObj([k \in {NameX, NameList, NameImages, NameItems, <<"a">>, NameLink} |->
            CASE k = <<"a">>  -> JObj(<<>>)
              [] k = NameLink -> JObj([j \in {NameX} |-> JStr(<<"L">>)])
              [] k = NameImages ->
                    JArr(<<JObj([j \in {<<"s", "r", "c">>} |-> JStr(<<"s">>)])>>)
              [] OTHER        -> ContextWith(<<JNum(1), JNum(2)>>).v[k]])

\* The helper registries: the library's each helper, the each and link
\* helpers of docs.md, and no helper at all; the first two with the throwing
\* helper.
LibHelpers ==
    [k \in {NameEach, NameImage} |->
        IF k = NameEach THEN JFn("each_helper") ELSE JFn("image")]
DocsHelpers ==
    [k \in {NameEach, NameImage, NameLink} |->
        CASE k = NameEach  -> JFn("each")
          [] k = NameImage -> JFn("image")
          [] k = NameLink  -> JFn("link")]
NoHelpers == <<>>

(***************************************************************************)
(* The program: a template is tokenized, built into a tree one token at a  *)
(* time, compiled, and rendered twice with the same context.  A partial    *)
(* may be registered before the template is compiled or between compiling  *)
(* and rendering.                                                          *)
(***************************************************************************)
VARIABLES
    pc,         \* the step the program is at
    source,     \* the template source
    context,    \* the context object handed to render
    options,    \* the options of the engine
    helpers,    \* the helpers Map
    partials,   \* the partials Map
    tokens,     \* the result of tokenize
    ti,         \* the index of the next token buildSyntaxTree reads
    bs,         \* the local state of buildSyntaxTree
    tree,       \* the result of buildSyntaxTree: Ok(tree) or the error thrown
    compiled,   \* the result of createRenderFunction
    out1,       \* the result of the first call of render
    out2,       \* the result of the second call of render
    expression, \* parseExpression: the text between the delimiters
    charIndex,  \* parseExpression: the index of the character loop
    est,        \* parseExpression: the local variables of the loop
    parsed,     \* parseExpression: Ok(sub-tokens) or the error thrown
    emitter,    \* the EventEmitter: its #handlers and #singleHandlers Maps
    emitted     \* the most recent emit call and the handlers it invoked

pipelineVars == <<pc, source, context, options, helpers, partials, tokens, ti, bs,
                  tree, compiled, out1, out2>>
parserVars == <<expression, charIndex, est, parsed>>
vars == <<pipelineVars, parserVars, emitter, emitted>>

Env == [options |-> options, helpers |-> helpers, partials |-> partials]

\* The source of the partial that gets registered.
PartialSource == <<"P">>

\* registerPartial(name, source): compile the source, then partials.set.
registerPartial(env, name, utf8) ==
    LET partialTree == buildSyntaxTree(tokenize(name, utf8))
        partial == createRenderFunction(env, partialTree.v)
    IN  MapSet(env.partials, name, partial.v)

Init ==
    /\ pc = "start"
    \* a concatenation of fragments, or a template compiled on its own
    /\ source \in SourcesOf(MaxFrags)
                    \cup {FragIndex0, FragIndex1, FragImage, FragEachLink,
                          FragShadow, FragImageSrc, FragNestedElse}
    /\ context \in {EmptyContext, EmptyItemsContext, TwoItemsContext}
    /\ \E setup \in
            {[helpers |-> LibHelpers,
              options |-> [useVerboseLogging |-> FALSE, includeErrorMessages |-> FALSE]],
             [helpers |-> DocsHelpers,
              options |-> [useVerboseLogging |-> FALSE, includeErrorMessages |-> TRUE]],
             [helpers |-> NoHelpers,
              options |-> [useVerboseLogging |-> FALSE, includeErrorMessages |-> FALSE]]} :
        /\ options = setup.options
        /\ helpers = setup.helpers
    /\ partials = <<>>
    /\ tokens = <<>>
    /\ ti = 1
    /\ bs = BuildInit
    /\ tree = JNull
    /\ compiled = JNull
    /\ out1 = JNull
    /\ out2 = JNull
    /\ expression = <<>>
    /\ charIndex = 0
    /\ est = ExpressionInit
    /\ parsed = JNull
    /\ emitter = [handlers |-> <<>>, singleHandlers |-> <<>>]
    /\ emitted = [count |-> 0, eventName |-> "", handlers |-> {}, singleHandlers |-> {}]

Tokenize ==
    /\ pc = "start"
    /\ tokens' = tokenize(Filename, source)
    /\ pc' = "tokenized"
    /\ UNCHANGED <<source, context, options, helpers, partials, ti, bs, tree,
                   compiled, out1, out2>>
    /\ UNCHANGED parserVars
    /\ UNCHANGED <<emitter, emitted>>

\* One iteration of the token loop of buildSyntaxTree.
BuildStep ==
    /\ pc = "tokenized"
    /\ ti <= Len(tokens)
    /\ bs.error = JNull
    /\ bs' = BuildToken(bs, tokens[ti])
    /\ ti' = ti + 1
    /\ UNCHANGED <<pc, source, context, options, helpers, partials, tokens, tree,
                   compiled, out1, out2>>
    /\ UNCHANGED parserVars
    /\ UNCHANGED <<emitter, emitted>>

\* The end of buildSyntaxTree: the error thrown in the loop, or the checks
\* after it.
BuildEnd ==
    /\ pc = "tokenized"
    /\ (ti > Len(tokens) \/ bs.error # JNull)
    /\ tree' = BuildFinish(bs)
    /\ pc' = IF tree'.ok THEN "built" ELSE "syntaxError"
    /\ UNCHANGED <<source, context, options, helpers, partials, tokens, ti, bs,
                   compiled, out1, out2>>
    /\ UNCHANGED parserVars
    /\ UNCHANGED <<emitter, emitted>>

RegisterPartial ==
    /\ pc \in {"built", "compiled"}
    /\ ~MapHas(partials, NameP)
    /\ partials' = registerPartial(Env, NameP, PartialSource)
    /\ UNCHANGED <<pc, source, context, options, helpers, tokens, ti, bs, tree,
                   compiled, out1, out2>>
    /\ UNCHANGED parserVars
    /\ UNCHANGED <<emitter, emitted>>

\* createRenderFunction(options, onerror, partials, helpers, tree): it
\* leaves the nodes of the tree as compilation modified them.
Compile ==
    /\ pc = "built"
    /\ LET res == createRenderFunction(Env, tree.v) IN
        /\ compiled' = IF res.ok THEN Ok(res.v) ELSE Throw(res.err)
        /\ tree' = Ok(res.tokens)
        /\ pc' = IF res.ok THEN "compiled" ELSE "compileError"
    /\ UNCHANGED <<source, context, options, helpers, partials, tokens, ti, bs,
                   out1, out2>>
    /\ UNCHANGED parserVars
    /\ UNCHANGED <<emitter, emitted>>

Render1 ==
    /\ pc = "compiled"
    /\ LET Rendering(r) ==
                /\ out1' = IF r.ok THEN Ok(r.v) ELSE Throw(r.err)
                /\ context' = ContextAfter(r, context)
       IN  Rendering(CallRender(Env, compiled.v, context))
    /\ pc' = "rendered"
    /\ UNCHANGED <<source, options, helpers, partials, tokens, ti, bs,
                   tree, compiled, out2>>
    /\ UNCHANGED parserVars
    /\ UNCHANGED <<emitter, emitted>>

Render2 ==
    /\ pc = "rendered"
    /\ LET Rendering(r) ==
                /\ out2' = IF r.ok THEN Ok(r.v) ELSE Throw(r.err)
                /\ context' = ContextAfter(r, context)
       IN  Rendering(CallRender(Env, compiled.v, context))
    /\ pc' = "done"
    /\ UNCHANGED <<source, options, helpers, partials, tokens, ti, bs,
                   tree, compiled, out1>>
    /\ UNCHANGED parserVars
    /\ UNCHANGED <<emitter, emitted>>

Next ==
    \/ Tokenize
    \/ BuildStep
    \/ BuildEnd
    \/ RegisterPartial
    \/ Compile
    \/ Render1
    \/ Render2

Spec == Init /\ [][Next]_vars

(***************************************************************************)
(* The expression parser on its own: parseExpression is handed the text of *)
(* one expression and scans it one character at a time.                    *)
(***************************************************************************)
\* The texts expressions are made of.
Lexemes ==
    {<<"a">>, <<"a", "s">>,                          \* names
     <<"t", "r", "u", "e">>, <<"f", "a", "l", "s", "e">>,
     <<"n", "u", "l", "l">>,
     <<"u", "n", "d", "e", "f", "i", "n", "e", "d">>, \* keywords
     <<"1">>,                                         \* a number
     <<" ">>, <<".">>,
     <<"[">>, <<"[", "1", "]">>,                      \* brackets
     <<"|">>, <<"|", "a", "|">>,                      \* block params
     <<"=">>, <<"\"">>}

\* The expression texts: the concatenations of at most MaxLexemes lexemes.
RECURSIVE ExpressionsOf(_)
ExpressionsOf(n) ==
    IF n = 0 THEN {<<>>}
    ELSE ExpressionsOf(n - 1) \cup {s \o l : s \in ExpressionsOf(n - 1), l \in Lexemes}

\* The {{ token that opens the expression.
OpenToken == tokenize(Filename, MustacheOpen)[1]

ParserInit ==
    /\ pc = "parser"
    /\ source = <<>>
    /\ context = EmptyContext
    /\ options = [useVerboseLogging |-> FALSE, includeErrorMessages |-> FALSE]
    /\ helpers = NoHelpers
    /\ partials = <<>>
    /\ tokens = <<>>
    /\ ti = 1
    /\ bs = BuildInit
    /\ tree = JNull
    /\ compiled = JNull
    /\ out1 = JNull
    /\ out2 = JNull
    /\ expression \in ExpressionsOf(MaxLexemes)
    /\ charIndex = 0
    /\ est = ExpressionInit
    /\ parsed = JNull
    /\ emitter = [handlers |-> <<>>, singleHandlers |-> <<>>]
    /\ emitted = [count |-> 0, eventName |-> "", handlers |-> {}, singleHandlers |-> {}]

\* One iteration of the character loop of parseExpression.
ScanExpressionChar ==
    /\ parsed = JNull
    /\ est.error = JNull
    /\ charIndex < Len(expression)
    /\ est' = ExpressionChar(OpenToken, est, expression[charIndex + 1])
    /\ charIndex' = charIndex + 1
    /\ UNCHANGED <<expression, parsed>>
    /\ UNCHANGED pipelineVars
    /\ UNCHANGED <<emitter, emitted>>

\* The end of parseExpression: the error thrown in the loop, or the checks
\* after it and the value returned.
EndExpression ==
    /\ parsed = JNull
    /\ (est.error # JNull \/ charIndex >= Len(expression))
    /\ parsed' = ExpressionEnd(OpenToken, est)
    /\ UNCHANGED <<expression, charIndex, est>>
    /\ UNCHANGED pipelineVars
    /\ UNCHANGED <<emitter, emitted>>

ParserNext ==
    \/ ScanExpressionChar
    \/ EndExpression

ParserSpec == ParserInit /\ [][ParserNext]_vars

(***************************************************************************)
(* The event emitter on its own: on, off, once and emit are called in any  *)
(* order with event names and handler functions.  A Map is a function from *)
(* event names to Sets of handlers; a handler is a function value.         *)
(***************************************************************************)
EventNames == {"e", "f"}

EmitterInit ==
    /\ pc = "emitter"
    /\ source = <<>>
    /\ context = EmptyContext
    /\ options = [useVerboseLogging |-> FALSE, includeErrorMessages |-> FALSE]
    /\ helpers = NoHelpers
    /\ partials = <<>>
    /\ tokens = <<>>
    /\ ti = 1
    /\ bs = BuildInit
    /\ tree = JNull
    /\ compiled = JNull
    /\ out1 = JNull
    /\ out2 = JNull
    /\ expression = <<>>
    /\ charIndex = 0
    /\ est = ExpressionInit
    /\ parsed = JNull
    /\ emitter = [handlers |-> <<>>, singleHandlers |-> <<>>]
    /\ emitted = [count |-> 0, eventName |-> "", handlers |-> {}, singleHandlers |-> {}]

\* on(eventName, handler)
on ==
    \E eventName \in EventNames, h \in 1..MaxHandlers :
        /\ emitter' = [emitter EXCEPT !.handlers =
                MapSet(@, eventName,
                       (IF MapHas(@, eventName) THEN @[eventName] ELSE {}) \cup {JFn(h)})]
        /\ UNCHANGED emitted
        /\ UNCHANGED <<pipelineVars, parserVars>>

\* off(eventName, handler), off(eventName) and off()
off ==
    /\ \/ \E eventName \in EventNames, h \in 1..MaxHandlers :
            emitter' =
                [handlers |->
                    IF MapHas(emitter.handlers, eventName)
                    THEN [emitter.handlers EXCEPT ![eventName] = @ \ {JFn(h)}]
                    ELSE emitter.handlers,
                 singleHandlers |->
                    IF MapHas(emitter.singleHandlers, eventName)
                    THEN [emitter.singleHandlers EXCEPT ![eventName] = @ \ {JFn(h)}]
                    ELSE emitter.singleHandlers]
       \/ \E eventName \in EventNames :
            LET Delete(map) == IF DOMAIN map \subseteq {eventName} THEN <<>>
                               ELSE [k \in DOMAIN map \ {eventName} |-> map[k]]
            IN  emitter' = [handlers |-> Delete(emitter.handlers),
                            singleHandlers |-> Delete(emitter.singleHandlers)]
       \/ emitter' = [handlers |-> <<>>, singleHandlers |-> <<>>]
    /\ UNCHANGED emitted
    /\ UNCHANGED <<pipelineVars, parserVars>>

\* once(eventName, handler)
once ==
    \E eventName \in EventNames, h \in 1..MaxHandlers :
        /\ emitter' = [emitter EXCEPT !.singleHandlers =
                MapSet(@, eventName,
                       (IF MapHas(@, eventName) THEN @[eventName] ELSE {}) \cup {JFn(h)})]
        /\ UNCHANGED emitted
        /\ UNCHANGED <<pipelineVars, parserVars>>

\* emit(eventName, eventPayload): the handlers of the event are called, then
\* its single handlers.  singleHandlers.delete(eventName) is called on the
\* Set of the event's single handlers: it removes the member that is the
\* event name, a string.
emit ==
    \E eventName \in EventNames :
        /\ emitted.count < MaxEmits
        /\ emitted' =
                [count          |-> emitted.count + 1,
                 eventName      |-> eventName,
                 handlers       |-> IF MapHas(emitter.handlers, eventName)
                                    THEN emitter.handlers[eventName] ELSE {},
                 singleHandlers |-> IF MapHas(emitter.singleHandlers, eventName)
                                    THEN emitter.singleHandlers[eventName] ELSE {}]
        /\ emitter' =
                IF MapHas(emitter.singleHandlers, eventName)
                THEN [emitter EXCEPT !.singleHandlers[eventName] =
                        {x \in @ : ~(x.t = "string" /\ x.v = eventName)}]
                ELSE emitter
        /\ UNCHANGED <<pipelineVars, parserVars>>

EmitterNext ==
    \/ on
    \/ off
    \/ once
    \/ emit

EmitterSpec == EmitterInit /\ [][EmitterNext]_vars

(***************************************************************************)
(* Properties.                                                             *)
(***************************************************************************)
Rendered == pc \in {"rendered", "done"}

\* A text, with or without the line break the tokenizer appends.
OptionalNewline(text) == {text, text \o <<"\n">>}

Includes(text, sub) ==
    \E i \in 0..(Len(text) - Len(sub)) : SubSeq(text, i + 1, i + Len(sub)) = sub

RendersAs(out, text) == out.ok /\ out.v.t = "string" /\ out.v.v \in OptionalNewline(text)

EscapedB == <<"&", "l", "t", ";", "b", "&", "g", "t", ";">>
RawB == <<"<", "b", ">">>

\* C1: with x = "<b>", the template {{ x }} renders &lt;b&gt; and the
\* template {{{ x }}} parses, compiles and renders <b>.
C1_Escaping ==
    /\ (source = FragPath /\ context # EmptyContext /\ Rendered)
            => RendersAs(out1, EscapedB)
    /\ (source = FragTriple /\ context # EmptyContext)
            => /\ pc \notin {"syntaxError", "compileError"}
               /\ (Rendered => RendersAs(out1, RawB))

\* C2: when the helper called by the template throws, render throws a
\* LineSyntaxError "Error in helper ..." whose cause is the helper's error.
C2_HelperErrorHasCause ==
    (source = FragImage /\ MapHas(helpers, NameImage) /\ Rendered)
        => /\ ~out1.ok
           /\ out1.err.name = "LineSyntaxError"
           /\ out1.err.message = <<"Error in helper", NameImage>>
           /\ "cause" \in DOMAIN out1.err
           /\ out1.err.cause = PlainError("Internal helper error")

\* C3: a template naming a partial that is not registered compiles; its
\* render fails while the partial is absent, and includes the partial's
\* output when the partial was registered before the render.
C3_PartialResolvedAtRender ==
    source = FragPartial
        => /\ pc # "compileError"
           /\ (Rendered /\ MapHas(partials, NameP))
                => (out1.ok /\ Includes(out1.v.v, PartialSource))
           /\ (Rendered /\ ~MapHas(partials, NameP)) => ~out1.ok

\* The mustache openers that no }} closes: the next delimiter after them,
\* if any, is another {{.
UnmatchedOpens(toks) ==
    {i \in 1..Len(toks) :
        /\ toks[i].tokenString = MustacheOpen
        /\ ~\E j \in (i + 1)..Len(toks) :
                /\ toks[j].tokenString = MustacheClose
                /\ \A k \in (i + 1)..(j - 1) : toks[k].tokenString # MustacheOpen}

FirstUnmatched(toks) ==
    CHOOSE i \in UnmatchedOpens(toks) : \A j \in UnmatchedOpens(toks) : i <= j

\* No fault precedes the first unmatched {{: the tokens before it build
\* without an error and the source opens no comment.
NoOtherFault(toks) ==
    /\ \A i \in 1..Len(toks) : toks[i].tokenString # CommentOpen
    /\ BuildLoop(BuildInit, SubSeq(toks, 1, FirstUnmatched(toks) - 1), 1).error = JNull

IsNoHelperError(err) ==
    /\ err.name = "LineSyntaxError"
    /\ err.message = <<"No helper named", <<"f", "o", "o">>>>
    /\ err.filename = Filename
    /\ err.lineNumber = 1
    /\ err.startPosition \in {0, 2}

\* C5: compiling and rendering {{foo bar}} without a helper named foo ends
\* in a thrown error "No helper named ..." that carries the filename, the
\* line number and the start position; no output is returned.
C5_MissingHelperError ==
    source = FragMissingHelper
        => /\ pc = "compileError" => IsNoHelperError(compiled.err)
           /\ Rendered => (~out1.ok /\ IsNoHelperError(out1.err))

\* C6: for every context, a template whose expression {{ a.b.c }} passes
\* through a missing container compiles, its render returns, and the
\* expression adds nothing to the output of the text around it.
C6_MissingPathRendersEmpty ==
    \A before, after \in {<<>>, FragLiteral} :
        source = before \o FragDeepPath \o after
            => /\ pc \notin {"syntaxError", "compileError"}
               /\ Rendered => out1 = Ok(JStr(before \o after \o <<"\n">>))

\* Reached: {{ a.b.c }} was rendered with a = {} and with the context {}.
C6_Witness ==
    /\ pc = "done"
    /\ source = FragLiteral \o FragDeepPath
    /\ context = TwoItemsContext
    /\ out1 = Ok(JStr(FragLiteral \o <<"\n">>))

IsLiteralOnly(text) == \A i \in 1..Len(text) : text[i] \notin {"{", "}"}

\* C7: a source without delimiters renders to exactly the source text.
C7_LiteralRoundTrip ==
    (IsLiteralOnly(source) /\ Rendered) => out1 = Ok(JStr(source))

\* C8: with list = ["a", "b"], {{ list[0] }} renders a and {{ list[1] }}
\* renders b.
C8_NumericBracket ==
    (context # EmptyContext /\ Rendered)
        => /\ source = FragIndex0 => RendersAs(out1, <<"a">>)
           /\ source = FragIndex1 => RendersAs(out1, <<"b">>)

\* C9: the each block renders none for items = [] and 12 for items = [1, 2].
C9_EachBlock ==
    (source = FragEach /\ MapHas(helpers, NameEach) /\ context # EmptyContext)
        => /\ pc # "compileError"
           /\ (Rendered /\ context = EmptyItemsContext)
                => RendersAs(out1, <<"n", "o", "n", "e">>)
           /\ (Rendered /\ context = TwoItemsContext)
                => RendersAs(out1, <<"1", "2">>)

\* C10: a template that parses compiles, and its two renders with the same
\* context have the same result.
C10_CompilesAndRendersTwice ==
    /\ pc # "compileError"
    /\ pc = "done" => out1 = out2

\* The }} that closes the {{ at index i: the next }} token, 0 if none.
ClosingOf(toks, i) ==
    IF \E j \in (i + 1)..Len(toks) : toks[j].tokenString = MustacheClose
    THEN CHOOSE j \in (i + 1)..Len(toks) :
            /\ toks[j].tokenString = MustacheClose
            /\ \A k \in (i + 1)..(j - 1) : toks[k].tokenString # MustacheClose
    ELSE 0

\* The text of the expression the {{ at index i opens.
ExpressionText(toks, i) ==
    Join([k \in 1..(ClosingOf(toks, i) - i - 1) |-> Trim(toks[i + k].tokenString)],
         <<" ">>)

\* The {{ tokens of the blocks open after the tokens from index i on, the
\* outermost first: {{#...}} opens a block, {{/...}} closes the innermost.
RECURSIVE OpenBlocks(_, _, _)
OpenBlocks(toks, i, stack) ==
    IF i > Len(toks) THEN stack
    ELSE IF toks[i].tokenString = MustacheOpen /\ ClosingOf(toks, i) # 0 THEN
        OpenBlocks(toks, ClosingOf(toks, i) + 1,
            IF StartsWith(ExpressionText(toks, i), "#") THEN Append(stack, i)
            ELSE IF StartsWith(ExpressionText(toks, i), "/") /\ stack # <<>>
            THEN SubSeq(stack, 1, Len(stack) - 1)
            ELSE stack)
    ELSE OpenBlocks(toks, i + 1, stack)

UnclosedBlocks == OpenBlocks(tokens, 1, <<>>)

\* The token loop of buildSyntaxTree ended without an error and left no
\* mustache and no comment open.
LoopEndsClean ==
    /\ bs.error = JNull
    /\ bs.mustacheOpenToken = JNull
    /\ bs.commentOpenToken = JNull

\* The error is msg, at the line and the column of the token tok.
ErrorAt(err, msg, tok) ==
    /\ err.name = "LineSyntaxError"
    /\ err.message = msg
    /\ err.filename = tok.filename
    /\ err.lineNumber = tok.lineNumber
    /\ err.startPosition = tok.startPosition

\* C11 (as stated): when a block is left open at the end of the input,
\* buildSyntaxTree fails with "Failed to close block opened in ..." at the
\* line and the column of the expression that opened the block.
C11_UnclosedBlockError ==
    (tree # JNull /\ UnclosedBlocks # <<>>)
        => /\ ~tree.ok
           /\ ErrorAt(tree.err, "Failed to close block opened in",
                      tokens[UnclosedBlocks[1] + 1])

\* C11 (amended): when a block is left open at the end of the input,
\* buildSyntaxTree fails with a LineSyntaxError; when the token loop raised
\* no error and left no mustache and no comment open, the error is "Failed
\* to close block opened in ..." at the line and the column of the
\* expression that opened the outermost open block.
C11_UnclosedBlockFails ==
    (tree # JNull /\ UnclosedBlocks # <<>>)
        => /\ ~tree.ok
           /\ tree.err.name = "LineSyntaxError"
           /\ LoopEndsClean
                => ErrorAt(tree.err, "Failed to close block opened in",
                           tokens[UnclosedBlocks[1] + 1])

\* Reached: "ab{{#if x}}" has failed to parse with the error at line 1,
\* column 4.
C11_Witness ==
    /\ pc = "syntaxError"
    /\ source = FragLiteral \o FragOpenBlock
    /\ UnclosedBlocks = <<2>>
    /\ LoopEndsClean
    /\ tree.err.message = "Failed to close block opened in"
    /\ tree.err.lineNumber = 1
    /\ tree.err.startPosition = 4

\* The {{!-- tokens no --}} token follows.
UnclosedComments(toks) ==
    {i \in 1..Len(toks) :
        /\ toks[i].tokenString = CommentOpen
        /\ ~\E j \in (i + 1)..Len(toks) : toks[j].tokenString = CommentClose}

FirstUnclosedComment(toks) ==
    CHOOSE i \in UnclosedComments(toks) : \A j \in UnclosedComments(toks) : i <= j

\* C12 (as stated): when a comment opened with {{!-- is never closed by --}},
\* parsing fails with "Failed to close comment opened in ..." at the line
\* and the column of the {{!-- token.
C12_UnclosedCommentError ==
    (tree # JNull /\ UnclosedComments(tokens) # {})
        => /\ ~tree.ok
           /\ ErrorAt(tree.err, "Failed to close comment opened in",
                      tokens[FirstUnclosedComment(tokens)])

\* C12 (amended): when a comment opened with {{!-- is never closed by --}},
\* parsing fails with a LineSyntaxError; when the token loop raised no error
\* and left no mustache open, the error is "Failed to close comment opened
\* in ..." at the line and the column of the {{!-- token.
C12_UnclosedCommentFails ==
    (tree # JNull /\ UnclosedComments(tokens) # {})
        => /\ ~tree.ok
           /\ tree.err.name = "LineSyntaxError"
           /\ (bs.error = JNull /\ bs.mustacheOpenToken = JNull)
                => ErrorAt(tree.err, "Failed to close comment opened in",
                           tokens[FirstUnclosedComment(tokens)])

\* Reached: "ab{{!-- c" has failed to parse with the error at line 1,
\* column 2.
C12_Witness ==
    /\ pc = "syntaxError"
    /\ source = FragLiteral \o FragUnclosedComment
    /\ UnclosedComments(tokens) = {2}
    /\ bs.error = JNull
    /\ bs.mustacheOpenToken = JNull
    /\ tree.err.message = "Failed to close comment opened in"
    /\ tree.err.lineNumber = 1
    /\ tree.err.startPosition = 2

\* The character scan of parseExpression has reached the end of the
\* expression text without an error, and parseExpression has ended.
ScanReachedEnd ==
    /\ parsed # JNull
    /\ est.error = JNull
    /\ charIndex = Len(expression)

\* The messages of the checks after the character loop.
UnterminatedMessages ==
    {"Unclosed bracket \"[...]\" in expression",
     "Unclosed block params in expression",
     "Unclosed string literal in expression",
     "No value defined for key/value after \"=\" in expression"}

\* C13: when the character scan reaches the end of the expression text
\* inside a string literal, inside a bracket, inside a block-parameter list
\* or right after a "=" with no value, parseExpression throws a
\* LineSyntaxError located at the opening delimiter token and returns no
\* sub-token sequence.
C13_UnterminatedFails ==
    (/\ ScanReachedEnd
     /\ \/ est.inStringLiteral # ""
        \/ est.inBracket
        \/ est.inBlockParams
        \/ est.inStartKeyValue)
        => /\ ~parsed.ok
           /\ parsed.err.message \in UnterminatedMessages
           /\ ErrorAt(parsed.err, parsed.err.message, OpenToken)

\* Reached: the expression text a= has been scanned to its end and
\* parseExpression has thrown.
C13_Witness ==
    /\ ScanReachedEnd
    /\ expression = <<"a", "=">>
    /\ est.inStartKeyValue
    /\ ~parsed.ok
    /\ parsed.err.message = "No value defined for key/value after \"=\" in expression"

\* What the link helper of docs.md returns for a href and a label.
LinkText(href, label) ==
    <<"<a href=\"">> \o href \o <<"\">">> \o label \o <<"</a>">>

\* The context a block renders its children against, given the enclosing
\* context and the extra context: every key of extra has the value of extra,
\* every other key of the enclosing context keeps its value.
IsMergeOf(merged, enclosing, extra) ==
    /\ merged.t = "object"
    /\ DOMAIN merged.v = DOMAIN enclosing.v \cup DOMAIN extra.v
    /\ \A k \in DOMAIN extra.v : merged.v[k] = extra.v[k]
    /\ \A k \in DOMAIN enclosing.v \ DOMAIN extra.v : merged.v[k] = enclosing.v[k]

\* The extra contexts of the each helper of docs.md for the block params |x|
\* and items = [1, 2]: x is the item, the index has no name.
ExtraContexts ==
    {JObj([k \in {NameX, <<"u", "n", "d", "e", "f", "i", "n", "e", "d">>} |->
            IF k = NameX THEN JNum(i) ELSE JNum(i - 1)]) : i \in {1, 2}}

\* C14: the children of a block are rendered against the enclosing context
\* with the extra context merged over it.  With the helpers of docs.md the
\* template {{#each items as |x|}}{{link x list}}{{else}}{{link x list}}{{/each}}
\* renders, for items = [1, 2], the links labelled 1 and 2 (x is the extra
\* context's) with the href a,b (list is the enclosing context's), and for
\* items = [] the link labelled <b> (renderInverse keeps the enclosing x).
C14_RenderMergesContext ==
    (Rendered /\ source = FragEachLink /\ helpers = DocsHelpers
        /\ context \in {EmptyItemsContext, TwoItemsContext})
        => /\ \A extra \in ExtraContexts :
                IsMergeOf(ObjectAssign(context, extra), context, extra)
           /\ context = TwoItemsContext
                => RendersAs(out1, LinkText(<<"a", ",", "b">>, <<"1">>)
                                   \o LinkText(<<"a", ",", "b">>, <<"2">>))
           /\ context = EmptyItemsContext
                => RendersAs(out1, LinkText(<<"a", ",", "b">>, <<"<", "b", ">">>))

\* Reached: the each block has rendered the two links for items = [1, 2].
C14_Witness ==
    /\ Rendered
    /\ source = FragEachLink
    /\ helpers = DocsHelpers
    /\ context = TwoItemsContext
    /\ RendersAs(out1, LinkText(<<"a", ",", "b">>, <<"1">>)
                       \o LinkText(<<"a", ",", "b">>, <<"2">>))

\* C15: a path of one segment that names a registered helper dereferences
\* to the helper function itself, although the context has a property of
\* that name; a path of two segments is looked up in the context only.
\* With the helpers of docs.md and the context link = { x: "L" }, the
\* template {{link link link.x}} renders the link whose label is the link
\* function and whose href is L.
C15_HelperShadowsContext ==
    (Rendered /\ source = FragShadow /\ helpers = DocsHelpers
        /\ context = TwoItemsContext)
        => /\ dereferencePath(Env, context, <<JStr(NameLink)>>, 0)
                = Ok(helpers[NameLink])
           /\ dereferencePath(Env, context, <<JStr(NameLink), JStr(NameX)>>, 0)
                = Ok(JStr(<<"L">>))
           /\ RendersAs(out1, LinkText(<<"L">>, JsToString(helpers[NameLink])))

\* Reached: {{link link link.x}} has rendered with the link helper
\* registered and the context property link.
C15_Witness ==
    /\ Rendered
    /\ source = FragShadow
    /\ helpers = DocsHelpers
    /\ context = TwoItemsContext
    /\ context.v[NameLink].t = "object"
    /\ RendersAs(out1, LinkText(<<"L">>, <<"function ", "link">>))

\* The token at index k lies in a comment region: after a {{!-- token and
\* before the next --}} token.
InCommentRegion(toks, k) ==
    \E i \in 1..(k - 1) :
        /\ toks[i].tokenString = CommentOpen
        /\ \A m \in (i + 1)..k : toks[m].tokenString # CommentClose
        /\ \E j \in (k + 1)..Len(toks) : toks[j].tokenString = CommentClose

\* C16: inside a comment region the lexer emits no {{ and no }} token, and
\* a comment that holds such characters and is closed by --}} parses.
C16_NoDelimiterInComment ==
    /\ \A k \in 1..Len(tokens) :
            InCommentRegion(tokens, k)
                => tokens[k].tokenString \notin {MustacheOpen, MustacheClose}
    /\ (tree # JNull /\ source = FragCommentedOpen) => tree.ok

\* The words of a text: the maximal runs without a space.
RECURSIVE WordsOf(_, _, _)
WordsOf(text, i, word) ==
    IF i > Len(text) THEN IF word = <<>> THEN <<>> ELSE <<word>>
    ELSE IF text[i] = " "
    THEN (IF word = <<>> THEN <<>> ELSE <<word>>) \o WordsOf(text, i + 1, <<>>)
    ELSE WordsOf(text, i + 1, Append(word, text[i]))

\* An expression of bare sub-tokens only: word characters, "." and spaces
\* (no quote, bracket, "|" or "=").
IsBare(text) == \A i \in 1..Len(text) : text[i] \in WordChars \cup {".", " "}

\* The sub-token is the cast of the bare word: a keyword is a Literal, else
\* a word of digits is a numeric Literal, else the word is a Path.
IsCastOf(subToken, word) ==
    CASE word = <<"t", "r", "u", "e">> ->
            subToken = [type |-> "LITERAL", value |-> JBool(TRUE)]
      [] word = <<"f", "a", "l", "s", "e">> ->
            subToken = [type |-> "LITERAL", value |-> JBool(FALSE)]
      [] word = <<"n", "u", "l", "l">> ->
            subToken = [type |-> "LITERAL", value |-> JNull]
      [] word = <<"u", "n", "d", "e", "f", "i", "n", "e", "d">> ->
            subToken = [type |-> "LITERAL", value |-> JUndefined]
      [] OTHER ->
            IF \A i \in 1..Len(word) : word[i] \in Digits
            THEN subToken = [type |-> "LITERAL", value |-> JNum(ParseInt(word, 0))]
            ELSE subToken.type = "PATH" /\ subToken.pathString = word

HasDotPath(text) ==
    \E i \in 1..Len(text) :
        /\ text[i] = "."
        /\ (i = 1 \/ text[i - 1] \in {" ", "="})
        /\ \A j \in (i + 1)..Len(text) :
                text[j] = "=" => \E k \in (i + 1)..(j - 1) : text[k] = " "

\* An expression of bare words and key/value pairs.
IsBareOrKeyValue(text) ==
    \A i \in 1..Len(text) : text[i] \in WordChars \cup {".", " ", "="}

HasBadBracket(text) ==
    \E i \in 2..Len(text) :
        /\ text[i] = "["
        /\ \/ text[i - 1] = "."
           \/ \E j \in 1..(i - 1) :
                /\ text[j] = "["
                /\ \A k \in (j + 1)..(i - 1) : text[k] # "]"

\* C19: a reference path with nested brackets, or with a bracket right
\* after a ".", is rejected with a parse error; no sub-token is returned.
C19_BadBracketFails ==
    (/\ parsed # JNull
     /\ \A i \in 1..Len(expression) : expression[i] \in WordChars \cup {".", "[", "]"}
     /\ HasBadBracket(expression))
        => ~parsed.ok

\* C20: the character scan enters block-parameter capture only when the
\* last sub-token read so far is a Path whose first segment is the word as.
C20_PipeNeedsAs ==
    [][(~est.inBlockParams /\ est'.inBlockParams)
        => /\ est.expressionTokens # <<>>
           /\ est.expressionTokens[Len(est.expressionTokens)].type = "PATH"
           /\ est.expressionTokens[Len(est.expressionTokens)].path # <<>>
           /\ est.expressionTokens[Len(est.expressionTokens)].path[1] = JStr(<<"a", "s">>)]_vars

\* C21: a render leaves its context argument as it was: no step changes
\* the context, the renders in which a helper calls renderPrimary or
\* renderInverse with an extra context included.
C21_RenderLeavesContext == [][context' = context]_vars

\* Reached: the each block has rendered its children twice through
\* renderPrimary, with the extra contexts x = 1 and x = 2, and the caller's
\* context still holds x = "<b>".
C21_Witness ==
    /\ pc = "done"
    /\ source = FragEachLink
    /\ helpers = DocsHelpers
    /\ context = TwoItemsContext
    /\ context.v[NameX] = JStr(<<"<", "b", ">">>)
    /\ out1.ok
    /\ out2 = out1

\* The tokenString of each token of a list.
TokenStrings(toks) == [i \in 1..Len(toks) |-> toks[i].tokenString]

\* The tokens emitted for the line with the number n, in emission order.
LineTokens(toks, n) == SelectSeq(toks, LAMBDA t : t.lineNumber = n)

RECURSIVE HasStrayClose(_, _, _)
HasStrayClose(toks, i, depth) ==
    IF i > Len(toks) THEN FALSE
    ELSE IF toks[i].tokenString = MustacheOpen /\ ClosingOf(toks, i) # 0 THEN
        IF StartsWith(ExpressionText(toks, i), "#")
        THEN HasStrayClose(toks, ClosingOf(toks, i) + 1, depth + 1)
        ELSE IF StartsWith(ExpressionText(toks, i), "/")
        THEN depth = 0 \/ HasStrayClose(toks, ClosingOf(toks, i) + 1, depth - 1)
        ELSE HasStrayClose(toks, ClosingOf(toks, i) + 1, depth)
    ELSE HasStrayClose(toks, i + 1, depth)

\* C23: a block-close tag {{/name}} read while no block is open is
\* rejected: buildSyntaxTree fails with a syntax error and returns no tree.
C23_StrayCloseFails ==
    (tree # JNull /\ HasStrayClose(tokens, 1, 0)) => ~tree.ok

\* C24: with images = [ { src: "s" } ], the template {{ images[0].src }}
\* renders s, and the path of the expression is parsed into the segments
\* images, 0, src.
C24_BracketDotPath ==
    /\ (source = FragImageSrc /\ tree # JNull)
            => /\ tree.ok
               /\ tree.v[1].exp[1].path
                    = <<JStr(NameImages), JNum(0), JStr(<<"s", "r", "c">>)>>
    /\ (source = FragImageSrc /\ context = TwoItemsContext /\ Rendered)
            => RendersAs(out1, <<"s">>)

\* The node at a path of child indexes.
NodeAt(nodes, path) ==
    ChildrenAt(nodes, SubSeq(path, 1, Len(path) - 1))[path[Len(path)]]

\* The tokens between the {{ at index i and its }}.
ExpressionParts(toks, i) == [k \in 1..(ClosingOf(toks, i) - i - 1) |-> toks[i + k]]

\* The stack of open blocks is the list of the blocks the tokens read so far
\* have opened and not closed, in opening order: the entry k is the
\* BLOCK_OPEN node of the k-th such opener, a child of the entry k - 1.
StackIsOpenBlocks ==
    (pc = "tokenized" /\ bs.error = JNull)
        => LET read == SubSeq(tokens, 1, ti - 1)
               open == OpenBlocks(read, 1, <<>>)
           IN  /\ Len(bs.blocks) = Len(open)
               /\ \A k \in 1..Len(open) :
                    /\ NodeAt(bs.tree, bs.blocks[k]).type = "BLOCK_OPEN"
                    /\ NodeAt(bs.tree, bs.blocks[k]).tokens
                            = ExpressionParts(read, open[k])
                    /\ SubSeq(bs.blocks[k], 1, Len(bs.blocks[k]) - 1)
                            = IF k = 1 THEN <<>> ELSE bs.blocks[k - 1]

\* An iteration of the token loop leaves the tree alone or appends one node
\* without children to the children of the block on top of the stack (to
\* the tree when the stack is empty), and changes nothing else in the tree.
AppendsAtTop ==
    (pc = "tokenized" /\ ti' = ti + 1 /\ bs'.tree # bs.tree)
        => LET top  == TopPath(bs.blocks)
               kids == ChildrenAt(bs'.tree, top)
               node == kids[Len(kids)]
           IN  /\ Len(kids) = Len(ChildrenAt(bs.tree, top)) + 1
               /\ bs'.tree = AppendAt(bs.tree, top, node)
               /\ "children" \in DOMAIN node => node.children = <<>>

\* C25: at every step of buildSyntaxTree the stack holds exactly the blocks
\* opened and not yet closed, in opening order, and every new node is
\* appended once, to the children of the block on top of the stack or to
\* the tree when the stack is empty.
C25_BlockStack == [](StackIsOpenBlocks) /\ [][AppendsAtTop]_vars

\* Reached: after {{#if x}}{{#if x}} the stack holds two blocks, the second
\* the child of the first, and the line break is a child of the second.
C25_Witness ==
    /\ pc = "tokenized"
    /\ source = FragOpenBlock \o FragOpenBlock
    /\ ti > Len(tokens)
    /\ bs.error = JNull
    /\ bs.blocks = <<(<<1>>), <<1, 1>>>>
    /\ Len(bs.tree) = 1
    /\ Len(bs.tree[1].children) = 1
    /\ bs.tree[1].children[1].children[1].type = "CONTENT"

\* The iteration of the token loop reads the }} of a {{/...}} while a block
\* is open.
ReadsBlockClose ==
    /\ pc = "tokenized"
    /\ ti' = ti + 1
    /\ bs.blocks # <<>>
    /\ bs.mustacheOpenToken # JNull
    /\ tokens[ti].tokenString = MustacheClose
    /\ StartsWith(Join([i \in 1..Len(bs.expressionParts) |->
                            Trim(bs.expressionParts[i].tokenString)], <<" ">>), "/")

\* C26: a {{/...}} read while a block is open pops the innermost open block
\* and raises no error, whatever its name: {{#if x}}{{/b}} parses.
C26_CloseIgnoresName ==
    /\ [][ReadsBlockClose
            => /\ bs'.error = JNull
               /\ bs'.blocks = SubSeq(bs.blocks, 1, Len(bs.blocks) - 1)]_vars
    /\ []((source = FragOpenBlock \o FragCloseOther /\ tree # JNull) => tree.ok)

\* Reached: {{#if x}}{{/b}} has parsed to one block of the helper if whose
\* first child is the BLOCK_CLOSE b, and no block is left open.
C26_Witness ==
    /\ pc = "built"
    /\ source = FragOpenBlock \o FragCloseOther
    /\ tree.ok
    /\ bs.blocks = <<>>
    /\ tree.v[1].type = "BLOCK_OPEN"
    /\ tree.v[1].exp[1].pathString = <<"i", "f">>
    /\ tree.v[1].children[1].type = "BLOCK_CLOSE"
    /\ tree.v[1].children[1].exp = <<"b">>

\* The node types createRenderer makes a part of the render function of.
RenderedTypes == {"PATH_EXPRESSION", "HELPER_EXPRESSION", "BLOCK_OPEN", "PARTIAL"}

\* The literals a list of nodes is expected to compile to: one literal per
\* run of CONTENT nodes that no rendered node interrupts, its text the
\* concatenation of the texts of the run in source order; a rendered node
\* in between is marked by an empty entry.
RECURSIVE ExpectedLiterals(_, _, _)
ExpectedLiterals(nodes, i, acc) ==
    IF i > Len(nodes) THEN acc
    ELSE IF nodes[i].type = "CONTENT" THEN
        IF acc # <<>> /\ acc[Len(acc)].literal
        THEN ExpectedLiterals(nodes, i + 1,
                [acc EXCEPT ![Len(acc)].str = @ \o nodes[i].str])
        ELSE ExpectedLiterals(nodes, i + 1,
                Append(acc, [literal |-> TRUE, str |-> nodes[i].str]))
    ELSE IF nodes[i].type \in RenderedTypes THEN
        ExpectedLiterals(nodes, i + 1, Append(acc, [literal |-> FALSE, str |-> <<>>]))
    ELSE ExpectedLiterals(nodes, i + 1, acc)

\* The literals of the parts of a render function.
LiteralsOf(parts) ==
    [i \in 1..Len(parts) |->
        IF parts[i].type = "CONTENT" THEN [literal |-> TRUE, str |-> parts[i].str]
        ELSE [literal |-> FALSE, str |-> <<>>]]

\* The parts of a render function are the expected literals of the nodes it
\* was compiled from, and so are those of the primary and the inverse render
\* functions of its blocks.
RECURSIVE MergedAsSource(_, _)
MergedAsSource(parts, nodes) ==
    /\ LiteralsOf(parts) = ExpectedLiterals(nodes, 1, <<>>)
    /\ LET fns    == SelectSeq(parts, LAMBDA p : p.type # "CONTENT")
           blocks == SelectSeq(nodes, LAMBDA n : n.type \in RenderedTypes)
       IN  \A k \in 1..Len(fns) :
                (fns[k].type = "HELPER_FUNCTION" /\ fns[k].render.kind = "helper"
                    /\ "children" \in DOMAIN blocks[k])
                    => /\ fns[k].render.renderPrimary.kind = "scoped"
                            => MergedAsSource(fns[k].render.renderPrimary.parts,
                                              RenderTokens(blocks[k].children))
                       /\ fns[k].render.renderInverse.kind = "scoped"
                            => MergedAsSource(fns[k].render.renderInverse.parts,
                                              InverseRenderTokens(blocks[k].children))

\* C27: the literals of the compiled render function are the runs of
\* CONTENT nodes of the tree as it was built, each merged literal the
\* concatenation of the texts of its run in source order, and no literal
\* spans a rendered node.
C27_MergePreservesText ==
    (compiled # JNull /\ compiled.ok) => MergedAsSource(compiled.v.parts, bs.tree)

\* Reached: {{ x }} and two line breaks have compiled to the expression and
\* one literal of two line breaks.
C27_Witness ==
    /\ pc = "compiled"
    /\ source = FragPath \o FragNewline
    /\ Len(bs.tree) = 3
    /\ Len(compiled.v.parts) = 2
    /\ compiled.v.parts[2].type = "CONTENT"
    /\ compiled.v.parts[2].str = <<"\n", "\n">>

\* The children of a block before its first ELSE child, and those after it.
BeforeElse(children) ==
    SelectSeq([i \in 1..Len(children) |->
                    [node |-> children[i],
                     pre  |-> \A j \in 1..i : children[j].type # "ELSE"]],
              LAMBDA c : c.pre)
AfterElse(children) ==
    SelectSeq([i \in 1..Len(children) |->
                    [node |-> children[i],
                     pre  |-> \E j \in 1..(i - 1) : children[j].type = "ELSE"]],
              LAMBDA c : c.pre)
NodesOf(marked) == [i \in 1..Len(marked) |-> marked[i].node]

\* The primary render function of every block among the parts is compiled
\* from the children before the block's first ELSE child and the inverse
\* one from the children after it, and so for the blocks inside them.
RECURSIVE PartitionedAtElse(_, _)
PartitionedAtElse(parts, nodes) ==
    LET fns    == SelectSeq(parts, LAMBDA p : p.type # "CONTENT")
        blocks == SelectSeq(nodes, LAMBDA n : n.type \in RenderedTypes)
        Compiled(fn, list) ==
            IF list = <<>> THEN fn = NoopRender
            ELSE /\ fn.kind = "scoped"
                 /\ LiteralsOf(fn.parts) = ExpectedLiterals(list, 1, <<>>)
                 /\ PartitionedAtElse(fn.parts, list)
    IN  /\ Len(fns) = Len(blocks)
        /\ \A k \in 1..Len(fns) :
                (fns[k].type = "HELPER_FUNCTION" /\ fns[k].render.kind = "helper"
                    /\ "children" \in DOMAIN blocks[k])
                    => /\ Compiled(fns[k].render.renderPrimary,
                                   NodesOf(BeforeElse(blocks[k].children)))
                       /\ Compiled(fns[k].render.renderInverse,
                                   NodesOf(AfterElse(blocks[k].children)))

\* C28: the children of a block before its first ELSE child make its
\* primary render function and those after it the inverse one; the ELSE of
\* a nested block partitions the nested block only: with the each helper of
\* docs.md, an each block over items, whose primary children are an each
\* block over list = ["a", "b"] with A, else, B, and whose inverse child is
\* C, renders AAAA for items = [1, 2] and C for items = [].
C28_ElsePartition ==
    /\ (compiled # JNull /\ compiled.ok) => PartitionedAtElse(compiled.v.parts, bs.tree)
    /\ (source = FragNestedElse /\ helpers = DocsHelpers /\ Rendered)
            => /\ context = TwoItemsContext
                    => RendersAs(out1, <<"A", "A", "A", "A">>)
               /\ context = EmptyItemsContext => RendersAs(out1, <<"C">>)

\* Reached: the nested each blocks have rendered AAAA for items = [1, 2].
C28_Witness ==
    /\ pc = "done"
    /\ source = FragNestedElse
    /\ helpers = DocsHelpers
    /\ context = TwoItemsContext
    /\ Len(bs.tree[1].children) = 4
    /\ bs.tree[1].children[1].children[2].type = "ELSE"
    /\ bs.tree[1].children[2].type = "ELSE"
    /\ RendersAs(out1, <<"A", "A", "A", "A">>)

\* The render function of a second compilation of the tree renders out.
RecompiledRenders(out) ==
    LET Same(again) ==
            /\ again.ok
            /\ LET SameOutput(r) == r.ok = out.ok /\ (r.ok => r.v = out.v)
               IN  SameOutput(CallRender(Env, again.v, context))
    IN  Same(createRenderFunction(Env, tree.v))

\* C29: compiling leaves the tree as buildSyntaxTree returned it, and a
\* second compilation of the tree yields a render function with the output
\* of the first.
C29_CompileLeavesTree ==
    /\ (compiled # JNull /\ compiled.ok) => tree.v = bs.tree
    /\ (Rendered /\ compiled.ok) => RecompiledRenders(out1)

\* The step is an emit call.
IsEmit == emitted'.count = emitted.count + 1

\* C30: a handler registered with once is invoked on the first emit of its
\* event and on no later one: the single handlers an emit call invokes are
\* no longer registered for the event when the call returns, so that only
\* another once call makes a later emit invoke them.
C30_OnceFiresOnce ==
    [][IsEmit
        => /\ MapHas(emitter.singleHandlers, emitted'.eventName)
                => emitted'.singleHandlers = emitter.singleHandlers[emitted'.eventName]
           /\ \A h \in emitted'.singleHandlers :
                ~(/\ MapHas(emitter'.singleHandlers, emitted'.eventName)
                  /\ h \in emitter'.singleHandlers[emitted'.eventName])]_vars

=============================================================================
